---- MODULE Spec2Model ----
(***************************************************************************)
(* Reconciliation engine, ledger store and workflow engine of the          *)
(* reconciliation-engine repository, as a state machine.                   *)
(*                                                                         *)
(* Amounts are integers in minor units (cents): 1000.00 is 100000 and the  *)
(* one-cent AMOUNT_TOLERANCE is 1.  Confidences are integers in units of   *)
(* 1/10000: 0.8 is 8000.  Instants are integers in half days; a date-only  *)
(* string is an even instant (midnight).  Strings are tuples of one-       *)
(* character strings, so that toLowerCase, includes and the fuzzy          *)
(* normalisation are computed as the code computes them.                   *)
(***************************************************************************)
EXTENDS Integers, Sequences, FiniteSets, TLC

\* ---------------------------------------------------------------- bounds
MaxInvoices == 2
MaxPayments == 2
MaxReconciliations == 2
MaxExceptions == 2
MaxNewInvoices == 1
MaxNewPayments == 1
MaxSavedRecords == 2
MaxJobs == 1
MaxRuns == 3
MaxVisits == 8

\* ------------------------------------------------------------- constants
AMOUNT_TOLERANCE == 1
PARTIAL_MATCH_NUM == 8
PARTIAL_MATCH_DEN == 10
ConfidenceUnit == 10000
SuggestionFloor == 3000
DefaultMinConfidence == 8000
TicksPerDay == 2

Abs(x) == IF x < 0 THEN -x ELSE x
Min(a, b) == IF a <= b THEN a ELSE b
Max(a, b) == IF a >= b THEN a ELSE b
CeilDiv(a, b) == (a + b - 1) \div b

\* --------------------------------------------------------------- strings
Lower(c) ==
  CASE c = "A" -> "a"
    [] c = "C" -> "c"
    [] c = "I" -> "i"
    [] c = "Z" -> "z"
    [] OTHER -> c

IsAlphaNum(c) == c \in {"a", "c", "i", "p", "z", "1", "2"}

ToLowerCase(s) == [k \in 1..Len(s) |-> Lower(s[k])]

Includes(s, sub) ==
  \E k \in 0..(Len(s) - Len(sub)) : SubSeq(s, k + 1, k + Len(sub)) = sub

Normalize(s) == SelectSeq(ToLowerCase(s), IsAlphaNum)

fuzzyMatch(str1, str2) ==
  LET n1 == Normalize(str1)
      n2 == Normalize(str2)
  IN  Includes(n2, n1) \/ Includes(n1, n2)

daysBetween(date1, date2) == CeilDiv(Abs(date2 - date1), TicksPerDay)

\* ------------------------------------------------------------ identifiers
\* nanoid() yields a fresh id per record; the n-th record of a collection
\* gets the id <<collection, n>>.
InvoiceId(n) == <<"inv", n>>
PaymentId(n) == <<"pay", n>>
ReconciliationId(n) == <<"rec", n>>
ExceptionId(n) == <<"exc", n>>
NoId == <<"none", 0>>

Orgs == {"orgA", "orgB"}

\* ----------------------------------------------------------- ledger store
\* A store value is the four collections, each in insertion order.
Store(invs, pays, recs, excs) ==
  [invoices |-> invs, payments |-> pays, reconciliations |-> recs, exceptions |-> excs]

\* getInvoice without the organization filter.
getInvoiceAnyOrg(st, organizationId, id) ==
  SelectSeq(st.invoices, LAMBDA d : d.id = id)

getInvoice(st, organizationId, id) ==
  SelectSeq(st.invoices, LAMBDA d : d.id = id /\ d.organizationId = organizationId)

getPayment(st, organizationId, id) ==
  SelectSeq(st.payments, LAMBDA d : d.id = id /\ d.organizationId = organizationId)

\* getUnreconciledInvoices without the status filter.
getUnreconciledInvoicesAnyStatus(st, organizationId) ==
  SelectSeq(st.invoices, LAMBDA d : d.organizationId = organizationId)

getUnreconciledInvoices(st, organizationId) ==
  SelectSeq(st.invoices,
            LAMBDA d : d.organizationId = organizationId /\ d.status = "pending")

\* getUnreconciledPayments without the organization filter.
getUnreconciledPaymentsAnyOrg(st, organizationId) ==
  SelectSeq(st.payments, LAMBDA d : d.status \in {"pending", "unmatched"})

getUnreconciledPayments(st, organizationId) ==
  SelectSeq(st.payments,
            LAMBDA d : d.organizationId = organizationId
                       /\ d.status \in {"pending", "unmatched"})

getAllInvoices(st, organizationId) ==
  SelectSeq(st.invoices, LAMBDA d : d.organizationId = organizationId)

getAllPayments(st, organizationId) ==
  SelectSeq(st.payments, LAMBDA d : d.organizationId = organizationId)

getAllReconciliations(st, organizationId) ==
  SelectSeq(st.reconciliations, LAMBDA d : d.organizationId = organizationId)

getAllExceptions(st, organizationId) ==
  SelectSeq(st.exceptions, LAMBDA d : d.organizationId = organizationId)

updateInvoiceStatus(st, organizationId, id, status) ==
  [st EXCEPT !.invoices =
     [k \in 1..Len(@) |->
        IF @[k].id = id /\ @[k].organizationId = organizationId
        THEN [@[k] EXCEPT !.status = status] ELSE @[k]]]

updatePaymentStatus(st, organizationId, id, status) ==
  [st EXCEPT !.payments =
     [k \in 1..Len(@) |->
        IF @[k].id = id /\ @[k].organizationId = organizationId
        THEN [@[k] EXCEPT !.status = status] ELSE @[k]]]

storeCreateReconciliation(st, organizationId, fields) ==
  [st EXCEPT !.reconciliations =
     Append(@, [id |-> ReconciliationId(Len(@) + 1),
                organizationId |-> organizationId,
                invoiceId |-> fields.invoiceId,
                paymentId |-> fields.paymentId,
                matchedAmount |-> fields.matchedAmount,
                matchType |-> fields.matchType,
                matchConfidence |-> fields.matchConfidence,
                discrepancyAmount |-> fields.discrepancyAmount,
                discrepancyType |-> fields.discrepancyType,
                status |-> fields.status,
                matchedBy |-> fields.matchedBy])]

createException(st, organizationId, fields) ==
  [st EXCEPT !.exceptions =
     Append(@, [id |-> ExceptionId(Len(@) + 1),
                organizationId |-> organizationId,
                type |-> fields.type,
                severity |-> fields.severity,
                invoiceId |-> fields.invoiceId,
                paymentId |-> fields.paymentId,
                reconciliationId |-> fields.reconciliationId,
                status |-> fields.status])]

updateExceptionStatus(st, organizationId, id, status) ==
  [st EXCEPT !.exceptions =
     [k \in 1..Len(@) |->
        IF @[k].id = id /\ @[k].organizationId = organizationId
        THEN [@[k] EXCEPT !.status = status] ELSE @[k]]]

\* A variant that also returns the records of a rejected reconciliation to
\* pending.
updateReconciliationStatusReverting(st, organizationId, id, status) ==
  LET hits == {k \in 1..Len(st.reconciliations) :
                 /\ st.reconciliations[k].id = id
                 /\ st.reconciliations[k].organizationId = organizationId}
  IN  IF hits = {}
      THEN [store |-> st, result |-> <<>>]
      ELSE LET k == CHOOSE h \in hits : \A g \in hits : h <= g
               rec == st.reconciliations[k]
               updated == [rec EXCEPT !.status = status]
               revert(records, recordId) ==
                 [j \in 1..Len(records) |->
                    IF status = "rejected" /\ records[j].id = recordId
                    THEN [records[j] EXCEPT !.status = "pending"] ELSE records[j]]
           IN  [store |-> [st EXCEPT !.reconciliations[k] = updated,
                                     !.invoices = revert(@, rec.invoiceId),
                                     !.payments = revert(@, rec.paymentId)],
                result |-> <<updated>>]

\* findOneAndUpdate({id, organizationId}, {$set: {status}}) with
\* returnDocument 'after': <<>> for null, <<document>> otherwise.
updateReconciliationStatus(st, organizationId, id, status) ==
  LET hits == {k \in 1..Len(st.reconciliations) :
                 /\ st.reconciliations[k].id = id
                 /\ st.reconciliations[k].organizationId = organizationId}
  IN  IF hits = {}
      THEN [store |-> st, result |-> <<>>]
      ELSE LET k == CHOOSE h \in hits : \A g \in hits : h <= g
               updated == [st.reconciliations[k] EXCEPT !.status = status]
           IN  [store |-> [st EXCEPT !.reconciliations[k] = updated],
                result |-> <<updated>>]

\* ------------------------------------------------- reconciliation engine
\* evaluateMatch returns <<>> for null and <<suggestion>> otherwise.
AmountScore(invoice, payment) ==
  IF Abs(invoice.amount - payment.amount) <= AMOUNT_TOLERANCE
  THEN <<[reason |-> "Exact amount match", score |-> 5000]>>
  ELSE IF payment.amount * PARTIAL_MATCH_DEN >= invoice.amount * PARTIAL_MATCH_NUM
       THEN <<[reason |-> "Amount percent match",
               score |-> (Min(payment.amount, invoice.amount) * 4000)
                           \div Max(payment.amount, invoice.amount)]>>
       ELSE <<>>

\* The reference match weighted 0.2 instead of 0.3.
ReferenceScoreLow(invoice, payment) ==
  IF Includes(ToLowerCase(payment.description), ToLowerCase(invoice.invoiceNumber))
  THEN <<[reason |-> "Invoice reference in payment description", score |-> 2000]>>
  ELSE <<>>

ReferenceScore(invoice, payment) ==
  IF Includes(ToLowerCase(payment.description), ToLowerCase(invoice.invoiceNumber))
  THEN <<[reason |-> "Invoice reference in payment description", score |-> 3000]>>
  ELSE <<>>

VendorScore(invoice, payment) ==
  IF fuzzyMatch(invoice.vendorName, payment.description)
     \/ fuzzyMatch(invoice.vendorName, payment.payerName)
  THEN <<[reason |-> "Vendor name match", score |-> 1000]>>
  ELSE <<>>

DateScore(invoice, payment) ==
  LET daysDiff == daysBetween(invoice.dueDate, payment.paymentDate)
  IN  IF daysDiff <= 30
      THEN <<[reason |-> "Payment within 30 days of due date", score |-> 1000]>>
      ELSE IF daysDiff <= 60
           THEN <<[reason |-> "Payment within 60 days of due date", score |-> 500]>>
           ELSE <<>>

RECURSIVE SumScores(_)
SumScores(parts) ==
  IF parts = <<>> THEN 0 ELSE Head(parts).score + SumScores(Tail(parts))

\* evaluateMatch without the currency check.
evaluateMatchAnyCurrency(invoice, payment) ==
  LET parts == AmountScore(invoice, payment) \o ReferenceScore(invoice, payment)
                 \o VendorScore(invoice, payment) \o DateScore(invoice, payment)
  IN  IF Len(parts) = 0
      THEN <<>>
      ELSE <<[invoiceId |-> invoice.id,
              paymentId |-> payment.id,
              confidence |-> Min(SumScores(parts), ConfidenceUnit),
              matchReasons |-> [k \in 1..Len(parts) |-> parts[k].reason],
              discrepancyAmount |-> payment.amount - invoice.amount]>>

evaluateMatch(invoice, payment) ==
  IF invoice.currency # payment.currency
  THEN <<>>
  ELSE LET parts == AmountScore(invoice, payment) \o ReferenceScore(invoice, payment)
                      \o VendorScore(invoice, payment) \o DateScore(invoice, payment)
       IN  IF Len(parts) = 0
           THEN <<>>
           ELSE <<[invoiceId |-> invoice.id,
                   paymentId |-> payment.id,
                   confidence |-> Min(SumScores(parts), ConfidenceUnit),
                   matchReasons |-> [k \in 1..Len(parts) |-> parts[k].reason],
                   discrepancyAmount |-> payment.amount - invoice.amount]>>

\* An insertion that places a suggestion in front of those of equal confidence.
RECURSIVE InsertBeforeEqual(_, _)
InsertBeforeEqual(sorted, s) ==
  IF sorted = <<>> THEN <<s>>
  ELSE IF Head(sorted).confidence > s.confidence
       THEN <<Head(sorted)>> \o InsertBeforeEqual(Tail(sorted), s)
       ELSE <<s>> \o sorted

\* Array.prototype.sort with (a, b) => b.confidence - a.confidence: a stable
\* sort, descending by confidence.
RECURSIVE InsertByConfidence(_, _)
InsertByConfidence(sorted, s) ==
  IF sorted = <<>> THEN <<s>>
  ELSE IF Head(sorted).confidence >= s.confidence
       THEN <<Head(sorted)>> \o InsertByConfidence(Tail(sorted), s)
       ELSE <<s>> \o sorted

\* A sort that leaves the list in enumeration order.
SortByConfidenceUnsorted(list) == list

RECURSIVE SortByConfidence(_)
SortByConfidence(list) ==
  IF list = <<>> THEN <<>>
  ELSE InsertByConfidence(SortByConfidence(SubSeq(list, 1, Len(list) - 1)),
                          list[Len(list)])

\* The pairs in enumeration order: invoice outer loop, payment inner loop.
RECURSIVE CollectSuggestions(_, _, _, _)
CollectSuggestions(invs, pays, i, p) ==
  IF i > Len(invs) THEN <<>>
  ELSE IF p > Len(pays) THEN CollectSuggestions(invs, pays, i + 1, 1)
  ELSE LET suggestion == evaluateMatch(invs[i], pays[p])
       IN  (IF suggestion # <<>> /\ suggestion[1].confidence > SuggestionFloor
            THEN suggestion ELSE <<>>)
           \o CollectSuggestions(invs, pays, i, p + 1)

generateSuggestions(st, organizationId) ==
  SortByConfidence(
    CollectSuggestions(getUnreconciledInvoices(st, organizationId),
                       getUnreconciledPayments(st, organizationId), 1, 1))

determineMatchType(invoiceAmount, paymentAmount) ==
  LET diff == paymentAmount - invoiceAmount
  IN  IF Abs(diff) <= AMOUNT_TOLERANCE THEN "exact"
      ELSE IF diff > 0 THEN "overpayment" ELSE "underpayment"

determineDiscrepancyType(amountDiff, invoice, payment) ==
  IF Abs(amountDiff) <= AMOUNT_TOLERANCE THEN "undefined"
  ELSE IF invoice.currency # payment.currency THEN "currency_mismatch"
  ELSE "amount_mismatch"

\* The severity with >= in place of > at the 100 threshold.
DiscrepancySeverityInclusive(amountDiff) ==
  IF Abs(amountDiff) > 100000 THEN "high"
  ELSE IF Abs(amountDiff) >= 10000 THEN "medium"
  ELSE "low"

\* Thresholds 1000 and 100 of the code, in cents.
DiscrepancySeverity(amountDiff) ==
  IF Abs(amountDiff) > 100000 THEN "high"
  ELSE IF Abs(amountDiff) > 10000 THEN "medium"
  ELSE "low"

createDiscrepancyException(st, organizationId, reconciliation, invoice, payment, amountDiff) ==
  createException(st, organizationId,
    [type |-> "amount_discrepancy",
     severity |-> DiscrepancySeverity(amountDiff),
     invoiceId |-> invoice.id,
     paymentId |-> payment.id,
     reconciliationId |-> reconciliation.id,
     status |-> "open"])

\* The status updates with both records set to matched whatever the amounts.
UpdateMatchedStatusesBothMatched(st, organizationId, invoice, payment, amountDiff) ==
  updatePaymentStatus(
    updateInvoiceStatus(st, organizationId, invoice.id, "matched"),
    organizationId, payment.id, "matched")

\* The status updates that follow the insert of the reconciliation.
UpdateMatchedStatuses(st, organizationId, invoice, payment, amountDiff) ==
  IF Abs(amountDiff) <= AMOUNT_TOLERANCE
  THEN updatePaymentStatus(
         updateInvoiceStatus(st, organizationId, invoice.id, "matched"),
         organizationId, payment.id, "matched")
  ELSE IF payment.amount < invoice.amount
       THEN updatePaymentStatus(
              updateInvoiceStatus(st, organizationId, invoice.id, "partially_matched"),
              organizationId, payment.id, "matched")
       ELSE updatePaymentStatus(
              updateInvoiceStatus(st, organizationId, invoice.id, "matched"),
              organizationId, payment.id, "partially_matched")

\* The value is [store, result]: result is <<>> for null and
\* <<reconciliation>> otherwise.
createReconciliation(st, organizationId, invoiceId, paymentId, matchedBy) ==
  LET foundInvoice == getInvoice(st, organizationId, invoiceId)
      foundPayment == getPayment(st, organizationId, paymentId)
  IN  IF foundInvoice = <<>> \/ foundPayment = <<>>
      THEN [store |-> st, result |-> <<>>]
      ELSE LET invoice == foundInvoice[1]
               payment == foundPayment[1]
               amountDiff == payment.amount - invoice.amount
               st1 == storeCreateReconciliation(st, organizationId,
                        [invoiceId |-> invoiceId,
                         paymentId |-> paymentId,
                         matchedAmount |-> Min(invoice.amount, payment.amount),
                         matchType |-> determineMatchType(invoice.amount, payment.amount),
                         matchConfidence |-> IF matchedBy = "auto" THEN 9000 ELSE 10000,
                         discrepancyAmount |-> amountDiff,
                         discrepancyType |->
                           determineDiscrepancyType(amountDiff, invoice, payment),
                         status |-> IF Abs(amountDiff) > AMOUNT_TOLERANCE
                                    THEN "pending_review" ELSE "approved",
                         matchedBy |-> matchedBy])
               reconciliation == st1.reconciliations[Len(st1.reconciliations)]
               st2 == UpdateMatchedStatuses(st1, organizationId, invoice, payment, amountDiff)
               st3 == IF Abs(amountDiff) > AMOUNT_TOLERANCE
                      THEN createDiscrepancyException(st2, organizationId, reconciliation,
                                                      invoice, payment, amountDiff)
                      ELSE st2
           IN  [store |-> st3, result |-> <<reconciliation>>]

\* autoReconcile's loop body without the two used-set checks.
AutoReconcileVisitNoUsedSets(acc, organizationId, suggestion, minConfidence) ==
  IF suggestion.confidence < minConfidence THEN acc
  ELSE LET r == createReconciliation(acc.store, organizationId,
                                     suggestion.invoiceId, suggestion.paymentId, "auto")
       IN  IF r.result # <<>>
           THEN [store |-> r.store,
                 reconciled |-> acc.reconciled \o r.result,
                 usedInvoices |-> acc.usedInvoices \cup {suggestion.invoiceId},
                 usedPayments |-> acc.usedPayments \cup {suggestion.paymentId}]
           ELSE [acc EXCEPT !.store = r.store]

\* autoReconcile's loop body marking the pair as used also when
\* createReconciliation returns null.
AutoReconcileVisitAlwaysUsed(acc, organizationId, suggestion, minConfidence) ==
  IF suggestion.confidence < minConfidence THEN acc
  ELSE IF suggestion.invoiceId \in acc.usedInvoices THEN acc
  ELSE IF suggestion.paymentId \in acc.usedPayments THEN acc
  ELSE LET r == createReconciliation(acc.store, organizationId,
                                     suggestion.invoiceId, suggestion.paymentId, "auto")
       IN  [store |-> r.store,
            reconciled |-> acc.reconciled \o r.result,
            usedInvoices |-> acc.usedInvoices \cup {suggestion.invoiceId},
            usedPayments |-> acc.usedPayments \cup {suggestion.paymentId}]

\* One iteration of the loop over the suggestions; acc carries the store,
\* the reconciled list and the two used sets.
AutoReconcileVisit(acc, organizationId, suggestion, minConfidence) ==
  IF suggestion.confidence < minConfidence THEN acc
  ELSE IF suggestion.invoiceId \in acc.usedInvoices THEN acc
  ELSE IF suggestion.paymentId \in acc.usedPayments THEN acc
  ELSE LET r == createReconciliation(acc.store, organizationId,
                                     suggestion.invoiceId, suggestion.paymentId, "auto")
       IN  IF r.result # <<>>
           THEN [store |-> r.store,
                 reconciled |-> acc.reconciled \o r.result,
                 usedInvoices |-> acc.usedInvoices \cup {suggestion.invoiceId},
                 usedPayments |-> acc.usedPayments \cup {suggestion.paymentId}]
           ELSE [acc EXCEPT !.store = r.store]

RECURSIVE AutoReconcileLoop(_, _, _, _)
AutoReconcileLoop(acc, organizationId, suggestions, minConfidence) ==
  IF suggestions = <<>> THEN acc
  ELSE AutoReconcileLoop(
         AutoReconcileVisit(acc, organizationId, Head(suggestions), minConfidence),
         organizationId, Tail(suggestions), minConfidence)

\* The value is [store, result]: result is the list of reconciliations created.
autoReconcile(st, organizationId, minConfidence) ==
  LET acc == AutoReconcileLoop(
               [store |-> st, reconciled |-> <<>>,
                usedInvoices |-> {}, usedPayments |-> {}],
               organizationId, generateSuggestions(st, organizationId), minConfidence)
  IN  [store |-> acc.store, result |-> acc.reconciled]

\* The duplicate check looking at exceptions of status open only.
HasOpenExceptionOnlyOpen(existingExceptions, field, id) ==
  \E k \in 1..Len(existingExceptions) :
     existingExceptions[k][field] = id /\ existingExceptions[k].status = "open"

HasOpenException(existingExceptions, field, id) ==
  \E k \in 1..Len(existingExceptions) :
     existingExceptions[k][field] = id /\ existingExceptions[k].status # "resolved"

\* The first loop: overdue unmatched invoices.  acc is [store, created].
RECURSIVE IdentifyInvoices(_, _, _, _, _)
IdentifyInvoices(acc, organizationId, invs, existingExceptions, today) ==
  IF invs = <<>> THEN acc
  ELSE LET invoice == Head(invs)
           raise == ~HasOpenException(existingExceptions, "invoiceId", invoice.id)
                    /\ invoice.dueDate < today
           st1 == createException(acc.store, organizationId,
                    [type |-> "unmatched_invoice",
                     severity |-> IF daysBetween(invoice.dueDate, today) > 30
                                  THEN "high" ELSE "medium",
                     invoiceId |-> invoice.id,
                     paymentId |-> NoId,
                     reconciliationId |-> NoId,
                     status |-> "open"])
       IN  IdentifyInvoices(
             IF raise
             THEN [store |-> st1,
                   created |-> Append(acc.created, st1.exceptions[Len(st1.exceptions)])]
             ELSE acc,
             organizationId, Tail(invs), existingExceptions, today)

\* The second loop: unmatched payments.  1000000 is the code's 10000, in cents.
RECURSIVE IdentifyPayments(_, _, _, _)
IdentifyPayments(acc, organizationId, pays, existingExceptions) ==
  IF pays = <<>> THEN acc
  ELSE LET payment == Head(pays)
           raise == ~HasOpenException(existingExceptions, "paymentId", payment.id)
           st1 == createException(acc.store, organizationId,
                    [type |-> "unmatched_payment",
                     severity |-> IF payment.amount > 1000000 THEN "high" ELSE "medium",
                     invoiceId |-> NoId,
                     paymentId |-> payment.id,
                     reconciliationId |-> NoId,
                     status |-> "open"])
       IN  IdentifyPayments(
             IF raise
             THEN [store |-> st1,
                   created |-> Append(acc.created, st1.exceptions[Len(st1.exceptions)])]
             ELSE acc,
             organizationId, Tail(pays), existingExceptions)

\* The value is [store, result]: result is the list of exceptions created.
identifyExceptions(st, organizationId, today) ==
  LET existingExceptions == getAllExceptions(st, organizationId)
      afterInvoices == IdentifyInvoices([store |-> st, created |-> <<>>], organizationId,
                                        getUnreconciledInvoices(st, organizationId),
                                        existingExceptions, today)
      afterPayments == IdentifyPayments(afterInvoices, organizationId,
                                        getUnreconciledPayments(st, organizationId),
                                        existingExceptions)
  IN  [store |-> afterPayments.store, result |-> afterPayments.created]

\* reduce((sum, d) => sum + d[field], 0)
RECURSIVE SumField(_, _)
SumField(list, field) ==
  IF list = <<>> THEN 0 ELSE Head(list)[field] + SumField(Tail(list), field)

\* matchRate is the quotient num / den, in percent; avgProcessingTime is in
\* tenths.
getDashboardStats(st, organizationId) ==
  LET invs == getAllInvoices(st, organizationId)
      pays == getAllPayments(st, organizationId)
      recs == getAllReconciliations(st, organizationId)
      excs == getAllExceptions(st, organizationId)
      matchedInvoices ==
        SelectSeq(invs, LAMBDA d : d.status \in {"matched", "partially_matched"})
      unreconciledInvoices == SelectSeq(invs, LAMBDA d : d.status = "pending")
      unreconciledPayments ==
        SelectSeq(pays, LAMBDA d : d.status \in {"pending", "unmatched"})
  IN  [totalInvoices |-> Len(invs),
       totalPayments |-> Len(pays),
       totalReconciled |-> Len(recs),
       totalExceptions |-> Len(SelectSeq(excs, LAMBDA e : e.status = "open")),
       totalInvoiceAmount |-> SumField(invs, "amount"),
       totalPaymentAmount |-> SumField(pays, "amount"),
       reconciledAmount |-> SumField(recs, "matchedAmount"),
       unreconciledInvoiceAmount |-> SumField(unreconciledInvoices, "amount"),
       unreconciledPaymentAmount |-> SumField(unreconciledPayments, "amount"),
       matchRate |-> IF Len(invs) > 0
                     THEN [num |-> Len(matchedInvoices) * 100, den |-> Len(invs)]
                     ELSE [num |-> 0, den |-> 1],
       avgProcessingTime |-> 25]

\* ---------------------------------------------------------------- inputs
Day(n) == n * TicksPerDay

INV1 == <<"I", "1">>
INV2 == <<"I", "2">>
VendorAC == <<"A", "-", "C">>
DescRef1 == <<"p", " ", "i", "1">>
DescRef2Vendor == <<"a", "c", " ", "I", "2">>
DescEmpty == <<>>
PayerAC == <<"A", "C">>
PayerZ == <<"Z">>

DueDay == Day(10)
PaidSoon == Day(20)
PaidLate == Day(60)
PaidVeryLate == Day(100)

\* The instants at which requests arrive: before the due day and 35 days
\* after it.
Instants == {Day(5), Day(45)}

PaymentAmounts ==
  {80000, 99998, 99999, 100000, 100001, 100002, 110000, 110001, 200000, 200001}

\* The records of the ledgers the matching specification starts from.
InvoiceInputs ==
  [organizationId : {"orgA"}, invoiceNumber : {INV1, INV2}, vendorName : {VendorAC},
   amount : {100000}, currency : {"USD"}, dueDate : {DueDay}, status : {"pending"}]
  \cup
  [organizationId : {"orgB"}, invoiceNumber : {INV1}, vendorName : {VendorAC},
   amount : {100000}, currency : {"USD"}, dueDate : {DueDay}, status : {"pending"}]

PaymentInputs ==
  [organizationId : {"orgA"}, payerName : {PayerZ}, amount : {80000, 100001, 110000},
   currency : {"USD"}, paymentDate : {PaidVeryLate}, description : {DescRef1},
   status : {"pending"}]
  \cup
  [organizationId : {"orgA"}, payerName : {PayerZ}, amount : {100000},
   currency : {"USD"}, paymentDate : {PaidVeryLate}, description : {DescRef1},
   status : {"unmatched"}]
  \cup
  [organizationId : {"orgA", "orgB"}, payerName : {PayerZ}, amount : {100000},
   currency : {"EUR"}, paymentDate : {PaidVeryLate}, description : {DescRef1},
   status : {"pending"}]
  \cup
  [organizationId : {"orgA"}, payerName : {PayerAC}, amount : {100000},
   currency : {"USD"}, paymentDate : {PaidSoon}, description : {DescRef2Vendor},
   status : {"pending"}]
  \cup
  [organizationId : {"orgA"}, payerName : {PayerZ}, amount : {50000},
   currency : {"USD"}, paymentDate : {PaidLate}, description : {DescEmpty},
   status : {"pending"}]

\* The one invoice and the one payment the amount specification starts from:
\* payments below, at and above the invoice amount, by 0.01, 0.02 and more.
AmountInvoiceInputs ==
  [organizationId : {"orgA"}, invoiceNumber : {INV1}, vendorName : {VendorAC},
   amount : {100000, 200000}, currency : {"USD"}, dueDate : {DueDay}, status : {"pending"}]

AmountPaymentInputs ==
  [organizationId : {"orgA"}, payerName : {PayerZ}, amount : PaymentAmounts,
   currency : {"USD", "EUR"}, paymentDate : {PaidVeryLate}, description : {DescRef1},
   status : {"pending"}]

\* The records requests create in the exception specification.
NewInvoiceInputs ==
  [organizationId : Orgs, invoiceNumber : {INV1}, vendorName : {VendorAC},
   amount : {100000}, currency : {"USD"}, dueDate : {DueDay}, status : {"pending"}]

NewPaymentInputs ==
  [organizationId : {"orgA"}, payerName : {PayerZ}, amount : {100000, 110000},
   currency : {"USD"}, paymentDate : {PaidVeryLate}, description : {DescRef1},
   status : {"pending"}]

\* The records of the two organizations' ledgers the isolation specification
\* starts from: each organization can hold an invoice and a payment that
\* refers to the invoice number.
IsolationInvoiceInputs ==
  [organizationId : Orgs, invoiceNumber : {INV1}, vendorName : {VendorAC},
   amount : {100000}, currency : {"USD"}, dueDate : {DueDay}, status : {"pending"}]

IsolationPaymentInputs ==
  [organizationId : {"orgA"}, payerName : {PayerZ}, amount : {100000, 110000},
   currency : {"USD"}, paymentDate : {PaidVeryLate}, description : {DescRef1},
   status : {"pending"}]
  \cup
  [organizationId : {"orgB"}, payerName : {PayerZ}, amount : {100000},
   currency : {"USD"}, paymentDate : {PaidVeryLate}, description : {DescRef1},
   status : {"pending"}]

\* The records of the ledgers the stale-record specification starts from.
StaleInvoiceInputs ==
  [organizationId : {"orgA"}, invoiceNumber : {INV1, INV2}, vendorName : {VendorAC},
   amount : {100000}, currency : {"USD"}, dueDate : {DueDay}, status : {"pending"}]

StalePaymentInputs ==
  [organizationId : {"orgA"}, payerName : {PayerZ}, amount : {100000, 110000},
   currency : {"USD"}, paymentDate : {PaidVeryLate}, description : {DescRef1},
   status : {"pending"}]
  \cup
  [organizationId : {"orgA"}, payerName : {PayerAC}, amount : {100000},
   currency : {"USD"}, paymentDate : {PaidSoon}, description : {DescRef2Vendor},
   status : {"pending"}]

MinConfidences == {0, DefaultMinConfidence}
ReconciliationStatuses == {"pending_review", "approved", "rejected", "resolved"}
ExceptionStatuses == {"open", "in_review", "resolved", "escalated"}

\* ----------------------------------------------------------------- state
VARIABLES
  invoices,         \* collection invoices, in insertion order
  payments,         \* collection payments
  reconciliations,  \* collection reconciliations
  exceptions,       \* collection exceptions
  today,            \* the instant new Date() returns
  last,             \* the last request served and what it returned
  quiet             \* per organization: identifyExceptions has run and nothing
                    \* has since become newly eligible or been resolved

\* workflow engine: one execution at a time, an attempt of a step per action
VARIABLES
  wfPc,             \* "idle", "step" (top of the while loop), "retry", "done"
  wfId,             \* the workflow being executed
  wfInput,          \* the execution's input and options
  execution,        \* the WorkflowExecution record
  currentStepId,    \* runSteps' local currentStepId
  output,           \* runSteps' local output
  context,          \* runSteps' local context is set
  retryIndex,       \* the retry loop's i
  attempts,         \* executeStep calls made in the current visit of a step
  visits,           \* visits of a step started by this execution
  lastVisit,        \* how the last finished visit ended
  caught,           \* the error the first attempt threw
  workflows         \* the ids of the registered workflows

wfVars == <<wfPc, wfId, wfInput, execution, currentStepId, output, context,
            retryIndex, attempts, visits, lastVisit, caught, workflows>>

engineVars == <<reconciliations, exceptions, today, last, quiet>>

\* processing job tracker of the remittance routes
VARIABLES
  jobs,             \* collection processingJobs, in insertion order
  remittances,      \* collection remittances
  objects,          \* object storage: the bytes stored under each key
  pipelines,        \* the processRemittanceAsync runs in flight
  retries,          \* the retry requests in flight, past their checks
  sseClients,       \* the observers registered for each organization
  emitted,          \* the events the last step emitted, with their receivers
  jobResponse,      \* the response of the last upload or retry request
  runs              \* the number of requests that were accepted so far

jobVars == <<jobs, remittances, objects, pipelines, retries, sseClients, emitted,
             jobResponse, runs>>

vars == <<invoices, payments, reconciliations, exceptions, today, last, quiet,
          wfPc, wfId, wfInput, execution, currentStepId, output, context,
          retryIndex, attempts, visits, lastVisit, caught, workflows,
          jobs, remittances, objects, pipelines, retries, sseClients, emitted,
          jobResponse, runs>>

CurrentStore == Store(invoices, payments, reconciliations, exceptions)

SetStore(st) ==
  /\ invoices' = st.invoices
  /\ payments' = st.payments
  /\ reconciliations' = st.reconciliations
  /\ exceptions' = st.exceptions

Call(op, org, invoiceId, paymentId, minConfidence, suggestions, result, wasQuiet) ==
  [op |-> op, organizationId |-> org, invoiceId |-> invoiceId, paymentId |-> paymentId,
   minConfidence |-> minConfidence, suggestions |-> suggestions, result |-> result,
   wasQuiet |-> wasQuiet]

NoCall == Call("none", "orgA", NoId, NoId, 0, <<>>, <<>>, FALSE)

NoOutput == [documentType |-> "none", extractedData |-> <<>>, savedRecordId |-> NoId]
NoInput == [hasBuffer |-> FALSE, organizationId |-> "none", processorId |-> "none"]
NoVisit == [stepId |-> "none", outcome |-> "none", attempts |-> 0, next |-> "none"]
NoExecution ==
  [workflowId |-> "none", status |-> "none", stepResults |-> <<>>,
   currentStepId |-> "none", output |-> <<>>, error |-> "none", completed |-> FALSE]

NoResponse == [op |-> "none", jobId |-> NoId, organizationId |-> "none", error |-> "none"]

\* No file has been submitted and no observer is connected.
JobsIdle ==
  /\ jobs = <<>>
  /\ remittances = <<>>
  /\ objects = {}
  /\ pipelines = {}
  /\ retries = {}
  /\ sseClients = [o \in Orgs |-> {}]
  /\ emitted = <<>>
  /\ jobResponse = NoResponse
  /\ runs = 0

\* No execution has been started.
WorkflowIdle ==
  /\ wfPc = "idle"
  /\ wfId = "none"
  /\ wfInput = NoInput
  /\ execution = NoExecution
  /\ currentStepId = "none"
  /\ output = NoOutput
  /\ context = FALSE
  /\ retryIndex = 0
  /\ attempts = 0
  /\ visits = 0
  /\ lastVisit = NoVisit
  /\ caught = "none"
  /\ workflows = {"invoice-processing", "payment-processing"}

StoredInvoice(n, input) ==
  [id |-> InvoiceId(n),
   organizationId |-> input.organizationId,
   invoiceNumber |-> input.invoiceNumber,
   vendorName |-> input.vendorName,
   amount |-> input.amount,
   currency |-> input.currency,
   dueDate |-> input.dueDate,
   status |-> input.status]

StoredPayment(n, input) ==
  [id |-> PaymentId(n),
   organizationId |-> input.organizationId,
   payerName |-> input.payerName,
   amount |-> input.amount,
   currency |-> input.currency,
   paymentDate |-> input.paymentDate,
   description |-> input.description,
   status |-> input.status]

\* The ledgers that hold up to max records created from the inputs.
InvoiceLedgers(inputs, max) ==
  UNION {{[k \in 1..n |-> StoredInvoice(k, f[k])] : f \in [1..n -> inputs]} : n \in 0..max}

PaymentLedgers(inputs, max) ==
  UNION {{[k \in 1..n |-> StoredPayment(k, f[k])] : f \in [1..n -> inputs]} : n \in 0..max}

\* The matching specification starts from a ledger of imported records.
Init ==
  /\ WorkflowIdle
  /\ JobsIdle
  /\ invoices \in InvoiceLedgers(InvoiceInputs, MaxInvoices)
  /\ payments \in PaymentLedgers(PaymentInputs, MaxPayments)
  /\ reconciliations = <<>>
  /\ exceptions = <<>>
  /\ today = Day(5)
  /\ last = NoCall
  /\ quiet = [o \in Orgs |-> FALSE]

\* The amount specification starts from one invoice and one payment.
AmountInit ==
  /\ WorkflowIdle
  /\ JobsIdle
  /\ invoices \in {<<StoredInvoice(1, input)>> : input \in AmountInvoiceInputs}
  /\ payments \in {<<StoredPayment(1, input)>> : input \in AmountPaymentInputs}
  /\ reconciliations = <<>>
  /\ exceptions = <<>>
  /\ today = Day(5)
  /\ last = NoCall
  /\ quiet = [o \in Orgs |-> FALSE]

\* The exception specification starts from the empty store.
ExceptionInit ==
  /\ WorkflowIdle
  /\ JobsIdle
  /\ invoices = <<>>
  /\ payments = <<>>
  /\ reconciliations = <<>>
  /\ exceptions = <<>>
  /\ today = Day(5)
  /\ last = NoCall
  /\ quiet = [o \in Orgs |-> FALSE]

\* POST /invoices
CreateInvoice ==
  \E input \in NewInvoiceInputs :
    /\ Len(invoices) < MaxNewInvoices
    /\ invoices' = Append(invoices, StoredInvoice(Len(invoices) + 1, input))
    /\ last' = Call("createInvoice", input.organizationId, NoId, NoId, 0, <<>>, <<>>, FALSE)
    /\ quiet' = [quiet EXCEPT ![input.organizationId] = FALSE]
    /\ UNCHANGED <<payments, reconciliations, exceptions, today>>
    /\ UNCHANGED wfVars
    /\ UNCHANGED jobVars

\* POST /payments
CreatePayment ==
  \E input \in NewPaymentInputs :
    /\ Len(payments) < MaxNewPayments
    /\ payments' = Append(payments, StoredPayment(Len(payments) + 1, input))
    /\ last' = Call("createPayment", input.organizationId, NoId, NoId, 0, <<>>, <<>>, FALSE)
    /\ quiet' = [quiet EXCEPT ![input.organizationId] = FALSE]
    /\ UNCHANGED <<invoices, reconciliations, exceptions, today>>
    /\ UNCHANGED wfVars
    /\ UNCHANGED jobVars

\* GET /reconciliations/suggestions
GenerateSuggestions ==
  \E org \in Orgs :
    /\ last' = Call("generateSuggestions", org, NoId, NoId, 0, <<>>,
                    generateSuggestions(CurrentStore, org), FALSE)
    /\ UNCHANGED <<invoices, payments, reconciliations, exceptions, today, quiet>>
    /\ UNCHANGED wfVars
    /\ UNCHANGED jobVars

\* The call before this one was autoReconcile for the same organization with
\* the same minConfidence: nothing was written in between.
SamePassAgain(org, minConfidence) ==
  /\ last.op = "autoReconcile"
  /\ last.organizationId = org
  /\ last.minConfidence = minConfidence

\* POST /reconciliations/auto
AutoReconcile ==
  \E org \in Orgs, minConfidence \in MinConfidences :
    LET r == autoReconcile(CurrentStore, org, minConfidence)
    IN  /\ Len(r.store.reconciliations) <= MaxReconciliations
        /\ Len(r.store.exceptions) <= MaxExceptions
        /\ SetStore(r.store)
        /\ last' = Call("autoReconcile", org, NoId, NoId, minConfidence,
                        generateSuggestions(CurrentStore, org), r.result,
                        SamePassAgain(org, minConfidence))
        /\ UNCHANGED <<today, quiet>>
        /\ UNCHANGED wfVars
        /\ UNCHANGED jobVars

\* POST /reconciliations
CreateReconciliation ==
  \E org \in Orgs, i \in 1..MaxInvoices, p \in 1..MaxPayments :
    LET r == createReconciliation(CurrentStore, org, InvoiceId(i), PaymentId(p), "manual")
    IN  /\ Len(r.store.reconciliations) <= MaxReconciliations
        /\ Len(r.store.exceptions) <= MaxExceptions
        /\ SetStore(r.store)
        /\ last' = Call("createReconciliation", org, InvoiceId(i), PaymentId(p), 0,
                        <<>>, r.result, FALSE)
        /\ UNCHANGED <<today, quiet>>
        /\ UNCHANGED wfVars
        /\ UNCHANGED jobVars

\* POST /exceptions/identify
IdentifyExceptions ==
  \E org \in Orgs :
    LET r == identifyExceptions(CurrentStore, org, today)
    IN  /\ Len(r.store.exceptions) <= MaxExceptions
        /\ SetStore(r.store)
        /\ last' = Call("identifyExceptions", org, NoId, NoId, 0, <<>>, r.result, quiet[org])
        /\ quiet' = [quiet EXCEPT ![org] = TRUE]
        /\ UNCHANGED today
        /\ UNCHANGED wfVars
        /\ UNCHANGED jobVars

\* PATCH /exceptions/:id/status
UpdateExceptionStatus ==
  \E org \in Orgs, n \in 1..MaxExceptions, status \in ExceptionStatuses :
    /\ SetStore(updateExceptionStatus(CurrentStore, org, ExceptionId(n), status))
    /\ last' = Call("updateExceptionStatus", org, NoId, NoId, 0, <<>>, <<>>, FALSE)
    /\ quiet' = IF status = "resolved"
                   /\ \E k \in 1..Len(exceptions) :
                         exceptions[k].id = ExceptionId(n)
                         /\ exceptions[k].organizationId = org
                THEN [quiet EXCEPT ![org] = FALSE] ELSE quiet
    /\ UNCHANGED today
    /\ UNCHANGED wfVars
    /\ UNCHANGED jobVars

\* Time passes.  An invoice that falls due is newly eligible for an exception.
NewlyOverdue(org, later) ==
  \E k \in 1..Len(invoices) :
     /\ invoices[k].organizationId = org
     /\ ~(invoices[k].dueDate < today)
     /\ invoices[k].dueDate < later

AdvanceClock ==
  \E later \in Instants :
    /\ later > today
    /\ today' = later
    /\ quiet' = [o \in Orgs |-> quiet[o] /\ ~NewlyOverdue(o, later)]
    /\ UNCHANGED <<invoices, payments, reconciliations, exceptions, last>>
    /\ UNCHANGED wfVars
    /\ UNCHANGED jobVars

Next ==
  \/ GenerateSuggestions
  \/ AutoReconcile
  \/ CreateReconciliation

Spec == Init /\ [][Next]_vars

AmountSpec == AmountInit /\ [][Next]_vars

\* PATCH /reconciliations/:id/status.  The call record keeps the addressed id
\* in its invoiceId field and the requested status in its suggestions field.
UpdateReconciliationStatus ==
  \E org \in Orgs, n \in 1..MaxReconciliations, status \in ReconciliationStatuses :
    LET r == updateReconciliationStatus(CurrentStore, org, ReconciliationId(n), status)
    IN  /\ SetStore(r.store)
        /\ last' = Call("updateReconciliationStatus", org, ReconciliationId(n), NoId, 0,
                        <<status>>, r.result, FALSE)
        /\ UNCHANGED <<today, quiet>>
        /\ UNCHANGED wfVars
        /\ UNCHANGED jobVars

\* Reconciliations are created and then reviewed.
ReviewNext ==
  \/ CreateReconciliation
  \/ AutoReconcile
  \/ UpdateReconciliationStatus

ReviewSpec == AmountInit /\ [][ReviewNext]_vars

ExceptionNext ==
  \/ CreateInvoice
  \/ CreatePayment
  \/ AutoReconcile
  \/ CreateReconciliation
  \/ IdentifyExceptions
  \/ UpdateExceptionStatus
  \/ AdvanceClock

ExceptionSpec == ExceptionInit /\ [][ExceptionNext]_vars

\* GET /dashboard/stats
GetDashboardStats ==
  \E org \in Orgs :
    /\ last' = Call("getDashboardStats", org, NoId, NoId, 0, <<>>,
                    <<getDashboardStats(CurrentStore, org)>>, FALSE)
    /\ UNCHANGED <<invoices, payments, reconciliations, exceptions, today, quiet>>
    /\ UNCHANGED wfVars
    /\ UNCHANGED jobVars

\* The isolation specification starts from a ledger that two organizations
\* share, on a day after the invoices fell due.
IsolationInit ==
  /\ WorkflowIdle
  /\ JobsIdle
  /\ invoices \in InvoiceLedgers(IsolationInvoiceInputs, MaxInvoices)
  /\ payments \in PaymentLedgers(IsolationPaymentInputs, MaxPayments)
  /\ reconciliations = <<>>
  /\ exceptions = <<>>
  /\ today = Day(45)
  /\ last = NoCall
  /\ quiet = [o \in Orgs |-> FALSE]

IsolationNext ==
  \/ GenerateSuggestions
  \/ AutoReconcile
  \/ CreateReconciliation
  \/ IdentifyExceptions
  \/ GetDashboardStats

IsolationSpec == IsolationInit /\ [][IsolationNext]_vars

\* The database is shared with other clients: records that one of them
\* deletes are gone from the collections.
removeRecords(st, invoiceIds, paymentIds) ==
  [st EXCEPT !.invoices = SelectSeq(@, LAMBDA d : d.id \notin invoiceIds),
             !.payments = SelectSeq(@, LAMBDA d : d.id \notin paymentIds)]

\* POST /reconciliations/auto while another client of the database deletes
\* records after generateSuggestions has read them and before the loop's
\* createReconciliation calls read them again.
AutoReconcileStale ==
  \E org \in Orgs, minConfidence \in MinConfidences,
     invoiceIds \in {{}} \cup {{InvoiceId(n)} : n \in 1..MaxInvoices},
     paymentIds \in {{}} \cup {{PaymentId(n)} : n \in 1..MaxPayments} :
    LET suggestions == generateSuggestions(CurrentStore, org)
        acc == AutoReconcileLoop(
                 [store |-> removeRecords(CurrentStore, invoiceIds, paymentIds),
                  reconciled |-> <<>>, usedInvoices |-> {}, usedPayments |-> {}],
                 org, suggestions, minConfidence)
    IN  /\ Len(acc.store.reconciliations) <= MaxReconciliations
        /\ Len(acc.store.exceptions) <= MaxExceptions
        /\ SetStore(acc.store)
        /\ last' = Call("autoReconcile", org, NoId, NoId, minConfidence,
                        suggestions, acc.reconciled, FALSE)
        /\ UNCHANGED <<today, quiet>>
        /\ UNCHANGED wfVars
        /\ UNCHANGED jobVars

StaleInit ==
  /\ WorkflowIdle
  /\ JobsIdle
  /\ invoices \in InvoiceLedgers(StaleInvoiceInputs, MaxInvoices)
  /\ payments \in PaymentLedgers(StalePaymentInputs, MaxPayments)
  /\ reconciliations = <<>>
  /\ exceptions = <<>>
  /\ today = Day(5)
  /\ last = NoCall
  /\ quiet = [o \in Orgs |-> FALSE]

StaleNext ==
  \/ AutoReconcileStale
  \/ CreateReconciliation

StaleSpec == StaleInit /\ [][StaleNext]_vars

\* ------------------------------------------------------- workflow engine
\* A step of a workflow definition; "none" is an absent pointer and 0 an
\* absent retryCount.
Step(id, type, onSuccess, onFailure, retryCount) ==
  [id |-> id, type |-> type, onSuccess |-> onSuccess, onFailure |-> onFailure,
   retryCount |-> retryCount]

DEFAULT_INVOICE_WORKFLOW ==
  [id |-> "invoice-processing",
   defaultProcessor |-> "mistral-ocr",
   steps |-> <<Step("upload", "upload", "classify", "none", 0),
               Step("classify", "classify", "extract", "notify-failure", 0),
               Step("extract", "extract", "validate", "notify-failure", 2),
               Step("validate", "validate", "save", "notify-review", 0),
               Step("save", "save", "notify-success", "none", 0),
               Step("notify-success", "notify", "none", "none", 0),
               Step("notify-failure", "notify", "none", "none", 0),
               Step("notify-review", "notify", "none", "none", 0)>>]

DEFAULT_PAYMENT_WORKFLOW ==
  [id |-> "payment-processing",
   defaultProcessor |-> "mistral-ocr",
   steps |-> <<Step("upload", "upload", "classify", "none", 0),
               Step("classify", "classify", "extract", "none", 0),
               Step("extract", "extract", "validate", "none", 2),
               Step("validate", "validate", "save", "none", 0),
               Step("save", "save", "none", "none", 0)>>]

\* A definition a caller registers with registerWorkflow: retries on the
\* upload, classify and save steps, no validate step and no default processor.
CUSTOM_WORKFLOW ==
  [id |-> "custom-processing",
   defaultProcessor |-> "none",
   steps |-> <<Step("upload", "upload", "classify", "none", 1),
               Step("classify", "classify", "extract", "extract", 1),
               Step("extract", "extract", "save", "notify-failure", 0),
               Step("save", "save", "notify-success", "notify-failure", 1),
               Step("notify-success", "notify", "none", "none", 0),
               Step("notify-failure", "notify", "none", "none", 0)>>]

\* A definition a caller registers whose onSuccess pointers form a cycle.
CYCLIC_WORKFLOW ==
  [id |-> "cyclic-processing",
   defaultProcessor |-> "none",
   steps |-> <<Step("notify-start", "notify", "notify-again", "none", 0),
               Step("notify-again", "notify", "notify-start", "none", 0)>>]

WorkflowDefinitions ==
  {DEFAULT_INVOICE_WORKFLOW, DEFAULT_PAYMENT_WORKFLOW, CUSTOM_WORKFLOW, CYCLIC_WORKFLOW}

WorkflowIds == {w.id : w \in WorkflowDefinitions}

\* this.workflows.get(id), for a registered id
getWorkflow(id) == CHOOSE w \in WorkflowDefinitions : w.id = id

\* workflow.steps.find((s) => s.id === id): the first such step, if any
FindStep(workflow, id) ==
  LET hits == {k \in 1..Len(workflow.steps) : workflow.steps[k].id = id}
  IN  IF hits = {} THEN <<>>
      ELSE <<workflow.steps[CHOOSE k \in hits : \A j \in hits : k <= j]>>

\* workflow.steps[0]?.id
FirstStepId(workflow) ==
  IF Len(workflow.steps) = 0 THEN "none" ELSE workflow.steps[1].id

\* the processors registered with the processorRegistry
RegisteredProcessors == {"mistral-ocr"}

\* processorId ? processorRegistry.get(processorId) : processorRegistry.getAll()[0]
ProcessorAvailable(processorId) ==
  IF processorId = "none" THEN RegisteredProcessors # {}
  ELSE processorId \in RegisteredProcessors

\* What a processor extracts.  kind tells which of invoiceNumber,
\* paymentReference and remittanceNumber the data carries; number is its value.
Extracted(kind, number, name, amount, date) ==
  [kind |-> kind, number |-> number, name |-> name, amount |-> amount,
   currency |-> "USD", date |-> date]

InvoiceDocs ==
  {Extracted("invoice", INV1, VendorAC, 100000, DueDay),
   Extracted("invoice", <<>>, VendorAC, 100000, DueDay)}

PaymentDocs ==
  {Extracted("payment", INV1, PayerAC, 100000, PaidSoon),
   Extracted("payment", INV1, PayerAC, 0, PaidSoon)}

\* a remittance has no amount, payerName or paymentReference field: the
\* payment saved from it carries none of them
RemittanceDocs == {Extracted("remittance", INV2, <<>>, 0, PaidSoon)}

DocumentTypes == {"invoice", "payment", "remittance", "unknown"}

\* the three classifier answers that steer the extract step differently
ClassifiedTypes == {"invoice", "payment", "unknown"}

\* The result of one executeStep call: ok or the thrown error, and the
\* fields of the returned object that runSteps reads.
StepOutcome(ok, error, hasContext, extractedData, documentType, saved) ==
  [ok |-> ok, error |-> error, context |-> hasContext,
   extractedData |-> extractedData, documentType |-> documentType, saved |-> saved]

Thrown(error) == StepOutcome(FALSE, error, FALSE, <<>>, "none", <<>>)

Returned == StepOutcome(TRUE, "none", FALSE, <<>>, "none", <<>>)

\* the validate step's errors array is non-empty
ValidationErrors(data) ==
  \/ data.kind = "invoice" /\ (data.number = <<>> \/ data.amount <= 0 \/ data.name = <<>>)
  \/ data.kind = "payment" /\ (data.number = <<>> \/ data.amount <= 0)

\* !organizationId in the save step, without the check
SaveOrganizationMissingUnchecked(input) == FALSE

\* !organizationId in the save step
SaveOrganizationMissing(input) == input.organizationId = "none"

\* The outcomes one executeStep call can have.  Storage, the processor and
\* the ledger store are external calls that can throw.
executeStep(step, input, out, hasContext, processorId) ==
  CASE step.type = "upload" ->
         IF ~input.hasBuffer THEN {Thrown("No file buffer provided")}
         ELSE {Thrown("storage error"),
               StepOutcome(TRUE, "none", TRUE, <<>>, "none", <<>>)}
    [] step.type = "classify" ->
         IF ~hasContext THEN {Thrown("No context available for classification")}
         ELSE IF ~ProcessorAvailable(processorId) THEN {Thrown("No processor available")}
         ELSE {Thrown("processor error")}
              \cup {StepOutcome(TRUE, "none", FALSE, <<>>, t, <<>>) : t \in ClassifiedTypes}
    [] step.type = "extract" ->
         IF ~hasContext THEN {Thrown("No context available for extraction")}
         ELSE IF ~ProcessorAvailable(processorId) THEN {Thrown("No processor available")}
         ELSE LET documentType == IF out.documentType = "none" THEN "invoice"
                                  ELSE out.documentType
                  docs == IF documentType = "invoice" THEN InvoiceDocs
                          ELSE IF documentType = "payment" THEN PaymentDocs
                          ELSE InvoiceDocs \cup PaymentDocs \cup RemittanceDocs
              IN  {Thrown("Extraction failed")}
                  \cup {StepOutcome(TRUE, "none", FALSE, <<d>>, "none", <<>>) : d \in docs}
    [] step.type = "validate" ->
         IF out.extractedData = <<>> THEN {Thrown("No extracted data to validate")}
         ELSE IF ValidationErrors(out.extractedData[1]) THEN {Thrown("Validation failed")}
         ELSE {Returned}
    [] step.type = "save" ->
         IF out.extractedData = <<>> THEN {Thrown("No extracted data to save")}
         ELSE IF SaveOrganizationMissing(input)
              THEN {Thrown("No organizationId provided for save step")}
         ELSE {Thrown("store error"),
               StepOutcome(TRUE, "none", FALSE, <<>>, "none", out.extractedData)}
    [] step.type \in {"notify", "transform"} -> {Returned}
    [] OTHER -> {Thrown("Unknown step type")}

\* the record the save step hands to mongoStore.createInvoice
SavedInvoiceInput(input, data) ==
  [organizationId |-> input.organizationId, invoiceNumber |-> data.number,
   vendorName |-> data.name, amount |-> data.amount, currency |-> data.currency,
   dueDate |-> data.date, status |-> "pending"]

\* the record the save step hands to mongoStore.createPayment
SavedPaymentInput(input, data) ==
  [organizationId |-> input.organizationId, payerName |-> data.name,
   amount |-> data.amount, currency |-> data.currency, paymentDate |-> data.date,
   description |-> <<>>, status |-> "pending"]

\* "invoiceNumber" in data
SavesInvoice(result) == result.saved # <<>> /\ result.saved[1].kind = "invoice"

SavesPayment(result) == result.saved # <<>> /\ result.saved[1].kind # "invoice"

\* savedId of a successful save step
SavedRecordId(result) ==
  IF SavesInvoice(result) THEN InvoiceId(Len(invoices) + 1)
  ELSE IF SavesPayment(result) THEN PaymentId(Len(payments) + 1)
  ELSE NoId

\* the ledger writes of one executeStep call
StepWrites(result) ==
  /\ invoices' = IF SavesInvoice(result)
                 THEN Append(invoices, StoredInvoice(Len(invoices) + 1,
                                         SavedInvoiceInput(wfInput, result.saved[1])))
                 ELSE invoices
  /\ payments' = IF SavesPayment(result)
                 THEN Append(payments, StoredPayment(Len(payments) + 1,
                                         SavedPaymentInput(wfInput, result.saved[1])))
                 ELSE payments

\* what a caller passes to execute: the input and options.processorId
WorkflowInputs ==
  [hasBuffer : BOOLEAN, organizationId : {"orgA", "none"},
   processorId : {"none", "mistral-ocr", "unknown-processor"}]

\* options.processorId || workflow.defaultProcessor
ProcessorId ==
  IF wfInput.processorId # "none" THEN wfInput.processorId
  ELSE getWorkflow(wfId).defaultProcessor

StepResult(stepId, status, error) == [stepId |-> stepId, status |-> status, error |-> error]

\* the while loop's test and the lookup of the step
LoopContinues(workflow, next) == next # "none" /\ FindStep(workflow, next) # <<>>

\* step.retryCount && step.retryCount > 0
HasRetries(step) == step.retryCount > 0

\* the retry loop's test, without its bound
RetryLoopContinuesOneMore(step, i) == i <= step.retryCount

\* the retry loop's test i < step.retryCount
RetryLoopContinues(step, i) == i < step.retryCount

\* The constructor registers the two default workflows.
WorkflowInit ==
  /\ invoices = <<>>
  /\ payments = <<>>
  /\ reconciliations = <<>>
  /\ exceptions = <<>>
  /\ today = Day(5)
  /\ last = NoCall
  /\ quiet = [o \in Orgs |-> FALSE]
  /\ WorkflowIdle
  /\ JobsIdle

\* registerWorkflow
RegisterWorkflow ==
  \E w \in WorkflowDefinitions :
    /\ w.id \notin workflows
    /\ workflows' = workflows \cup {w.id}
    /\ UNCHANGED <<invoices, payments, engineVars, jobVars>>
    /\ UNCHANGED <<wfPc, wfId, wfInput, execution, currentStepId, output, context,
                   retryIndex, caught, attempts, visits, lastVisit>>

\* runSteps returns: execute marks the execution completed
Completed(exec, results, out) ==
  [exec EXCEPT !.stepResults = results, !.status = "completed",
               !.completed = TRUE, !.output = <<out>>]

\* execute's catch block without the error message
FailedWithoutError(exec, results, error) ==
  [exec EXCEPT !.stepResults = results, !.status = "failed", !.completed = TRUE]

\* runSteps throws: execute marks the execution failed
Failed(exec, results, error) ==
  [exec EXCEPT !.stepResults = results, !.status = "failed",
               !.completed = TRUE, !.error = error]

\* execute, up to the first step's call
Execute ==
  \E id \in workflows, input \in WorkflowInputs :
    LET workflow == getWorkflow(id)
        started == [NoExecution EXCEPT !.workflowId = id, !.status = "running"]
    IN  /\ wfPc \in {"idle", "done"}
        /\ Len(invoices) + Len(payments) < MaxSavedRecords
        /\ wfId' = id
        /\ wfInput' = input
        /\ currentStepId' = FirstStepId(workflow)
        /\ output' = NoOutput
        /\ context' = FALSE
        /\ retryIndex' = 0
        /\ caught' = "none"
        /\ attempts' = 0
        /\ visits' = 0
        /\ lastVisit' = NoVisit
        /\ IF LoopContinues(workflow, FirstStepId(workflow))
           THEN wfPc' = "step" /\ execution' = started
           ELSE wfPc' = "done" /\ execution' = Completed(started, <<>>, NoOutput)
        /\ UNCHANGED <<invoices, payments, engineVars, jobVars, workflows>>

\* The end of a visit of a step: its one step result is pushed, and the loop
\* goes on at next, returns or throws.
EndVisit(step, status, error, next, out, outcome, n) ==
  LET workflow == getWorkflow(wfId)
      results == Append(execution.stepResults, StepResult(step.id, status, error))
      exec == [execution EXCEPT !.currentStepId = step.id]
  IN  /\ currentStepId' = next
      /\ output' = out
      /\ retryIndex' = 0
      /\ caught' = "none"
      /\ attempts' = 0
      /\ lastVisit' = [stepId |-> step.id, outcome |-> outcome, attempts |-> n,
                       next |-> next]
      /\ IF status = "failure" /\ next = "none"
         THEN wfPc' = "done" /\ execution' = Failed(exec, results, error)
         ELSE IF LoopContinues(workflow, next)
         THEN wfPc' = "step" /\ execution' = [exec EXCEPT !.stepResults = results]
         ELSE wfPc' = "done" /\ execution' = Completed(exec, results, out)

\* The first attempt of the current step.
FirstAttempt ==
  /\ wfPc = "step"
  /\ visits < MaxVisits
  /\ LET step == FindStep(getWorkflow(wfId), currentStepId)[1]
     IN  \E result \in executeStep(step, wfInput, output, context, ProcessorId) :
           /\ visits' = visits + 1
           /\ StepWrites(result)
           /\ IF result.ok
              THEN /\ context' = (context \/ result.context)
                   /\ EndVisit(step, "success", "none", step.onSuccess,
                        [documentType |-> IF result.documentType # "none"
                                          THEN result.documentType
                                          ELSE output.documentType,
                         extractedData |-> IF result.extractedData # <<>>
                                           THEN result.extractedData
                                           ELSE output.extractedData,
                         savedRecordId |-> IF result.saved # <<>>
                                           THEN SavedRecordId(result)
                                           ELSE output.savedRecordId],
                        "success", 1)
              ELSE IF HasRetries(step)
              THEN /\ wfPc' = "retry"
                   /\ retryIndex' = 0
                   /\ caught' = result.error
                   /\ attempts' = 1
                   /\ execution' = [execution EXCEPT !.currentStepId = step.id]
                   /\ UNCHANGED <<currentStepId, output, context, lastVisit>>
              ELSE /\ EndVisit(step, "failure", result.error, step.onFailure,
                               output, "failed", 1)
                   /\ UNCHANGED context
  /\ UNCHANGED <<engineVars, jobVars, workflows, wfId, wfInput>>

\* One pass of the retry loop, after the delay.
RetryAttempt ==
  /\ wfPc = "retry"
  /\ LET step == FindStep(getWorkflow(wfId), currentStepId)[1]
     IN  /\ RetryLoopContinues(step, retryIndex)
         /\ \E result \in executeStep(step, wfInput, output, context, ProcessorId) :
              /\ StepWrites(result)
              /\ IF result.ok
                 THEN /\ context' = (context \/ result.context)
                      /\ EndVisit(step, "success", "none", step.onSuccess,
                           [output EXCEPT !.extractedData =
                                            IF result.extractedData # <<>>
                                            THEN result.extractedData ELSE @],
                           "retried", attempts + 1)
                 ELSE IF RetryLoopContinues(step, retryIndex + 1)
                 THEN /\ retryIndex' = retryIndex + 1
                      /\ attempts' = attempts + 1
                      /\ UNCHANGED <<wfPc, execution, currentStepId, output, context,
                                     caught, lastVisit>>
                 ELSE /\ EndVisit(step, "failure", caught, step.onFailure,
                                  output, "exhausted", attempts + 1)
                      /\ UNCHANGED context
  /\ UNCHANGED <<engineVars, jobVars, workflows, wfId, wfInput, visits>>

WorkflowNext ==
  \/ RegisterWorkflow
  \/ Execute
  \/ FirstAttempt
  \/ RetryAttempt

WorkflowSpec == WorkflowInit /\ [][WorkflowNext]_vars

\* ------------------------------------------------- processing job tracker
JobId(n) == <<"job", n>>
RemittanceId(n) == <<"rem", n>>

\* the bytes of the file submitted by the n-th accepted request
Bytes(n) == <<"bytes", n>>

FileNames == {"r.pdf"}

\* `remittances/${organizationId}/${fileName}`
ObjectKey(organizationId, fileName) == <<"remittances", organizationId, fileName>>

\* the observers that can connect to GET /events and the organization each
\* one is authenticated for
Observers == {"o1", "o2", "o3"}

ObserverOrg(o) == IF o = "o3" THEN "orgB" ELSE "orgA"

\* the job record POST /upload inserts
NewJob(n, organizationId, fileName) ==
  [id |-> JobId(n), organizationId |-> organizationId, fileName |-> fileName,
   fileKey |-> "none", status |-> "queued", currentStep |-> "none", progress |-> 0,
   error |-> "none", completedAt |-> FALSE, result |-> NoId]

\* processingJobs().findOne({ id, organizationId }): <<>> for null
findJob(js, organizationId, id) ==
  SelectSeq(js, LAMBDA j : j.id = id /\ j.organizationId = organizationId)

\* $set of the fields of updates on one record
SetFields(job, updates) ==
  [f \in DOMAIN job |-> IF f \in DOMAIN updates THEN updates[f] ELSE job[f]]

\* processingJobs().updateOne({ id, organizationId }, { $set: updates })
updateJob(js, organizationId, id, updates) ==
  [k \in 1..Len(js) |->
     IF js[k].id = id /\ js[k].organizationId = organizationId
     THEN SetFields(js[k], updates) ELSE js[k]]

\* A ProcessingEvent with the observers its callbacks reach; status is the
\* status field of its data, "none" when the data carries none.
ProcessingEvent(type, jobId, status, to) ==
  [type |-> type, jobId |-> jobId, status |-> status, to |-> to]

\* emitEvent calling the callbacks of every organization
emitEventToAll(organizationId, type, jobId, status) ==
  <<ProcessingEvent(type, jobId, status, UNION {sseClients[o] : o \in Orgs})>>

\* emitEvent: the callbacks registered for the organization are called
emitEvent(organizationId, type, jobId, status) ==
  <<ProcessingEvent(type, jobId, status, sseClients[organizationId])>>

\* what extractRemittance returns on success: remittanceNumber and the number
\* of jobs of the extracted remittance
RemittanceDocsExtracted ==
  {[remittanceNumber |-> "RM-1", jobs |-> 1],
   [remittanceNumber |-> "", jobs |-> 1],
   [remittanceNumber |-> "RM-1", jobs |-> 0]}

NoData == [remittanceNumber |-> "", jobs |-> 0]

\* the basic validation of processRemittanceAsync: the message it throws,
\* "none" when it passes
RemittanceValidationError(extracted) ==
  IF extracted.remittanceNumber = "" THEN "Missing remittance number"
  ELSE IF extracted.jobs = 0 THEN "No jobs found in remittance"
  ELSE "none"

\* One processRemittanceAsync run.  pc names the call it is waiting for.
Pipeline(run, organizationId, jobId, buffer, fileName) ==
  [run |-> run, organizationId |-> organizationId, jobId |-> jobId,
   buffer |-> buffer, fileName |-> fileName, pc |-> "uploading",
   extracted |-> NoData, error |-> "none"]

\* The awaited updateJob calls of the try block that are followed by a
\* job_updated event: the fields set, the status in the event's data, and the
\* call the run waits for next.
StageUpdates(p) ==
  CASE p.pc = "uploading" ->
         [updates |-> [status |-> "uploading", currentStep |-> "upload", progress |-> 10],
          status |-> "uploading", next |-> "put"]
    [] p.pc = "uploaded" ->
         [updates |-> [fileKey |-> ObjectKey(p.organizationId, p.fileName), progress |-> 20],
          status |-> "none", next |-> "processing"]
    [] p.pc = "processing" ->
         [updates |-> [status |-> "processing", currentStep |-> "ocr", progress |-> 30],
          status |-> "processing", next |-> "extracting"]
    [] p.pc = "extracting" ->
         [updates |-> [status |-> "extracting", currentStep |-> "extract", progress |-> 50],
          status |-> "extracting", next |-> "extract"]
    [] p.pc = "extracted" ->
         [updates |-> [progress |-> 70], status |-> "none", next |-> "validating"]
    [] p.pc = "validating" ->
         [updates |-> [status |-> "validating", currentStep |-> "validate", progress |-> 80],
          status |-> "validating", next |-> "validated"]
    [] p.pc = "validated" ->
         [updates |-> [progress |-> 90], status |-> "none", next |-> "saving"]
    [] p.pc = "saving" ->
         [updates |-> [status |-> "saving", currentStep |-> "save"],
          status |-> "saving", next |-> "insert"]

UpdateStages ==
  {"uploading", "uploaded", "processing", "extracting", "extracted", "validating",
   "validated", "saving"}

\* what the code between an updateJob call's event and the next awaited call
\* throws: the processor lookup and the basic validation
ThrownAfter(p) ==
  CASE p.pc = "processing" ->
         IF "mistral-ocr" \in RegisteredProcessors THEN "none"
         ELSE "Mistral OCR processor not available"
    [] p.pc = "validating" -> RemittanceValidationError(p.extracted)
    [] OTHER -> "none"

\* a run that moves on, and a run whose try block threw
MoveTo(p, pc) == [p EXCEPT !.pc = pc]

Throw(p, error) == [p EXCEPT !.pc = "catch", !.error = error]

Replace(ps, p, q) == (ps \ {p}) \cup {q}

Response(op, organizationId, jobId, error) ==
  [op |-> op, jobId |-> jobId, organizationId |-> organizationId, error |-> error]

\* the calls of the storage client and of the database can throw
CallOutcomes == {"ok", "throws"}

\* the ledger and the workflow engine, which the job routes do not touch
outsideJobs == <<invoices, payments, engineVars, wfVars>>

\* An empty database, no file submitted, no observer connected.
JobInit ==
  /\ invoices = <<>>
  /\ payments = <<>>
  /\ reconciliations = <<>>
  /\ exceptions = <<>>
  /\ today = Day(5)
  /\ last = NoCall
  /\ quiet = [o \in Orgs |-> FALSE]
  /\ WorkflowIdle
  /\ JobsIdle

\* GET /events replaying the last events to the new stream
ConnectObserverReplays ==
  \E o \in Observers :
    /\ o \notin sseClients[ObserverOrg(o)]
    /\ sseClients' = [sseClients EXCEPT ![ObserverOrg(o)] = @ \cup {o}]
    /\ emitted' = [n \in 1..Len(emitted) |-> [emitted[n] EXCEPT !.to = {o}]]
    /\ UNCHANGED <<jobs, remittances, objects, pipelines, retries, jobResponse, runs>>
    /\ UNCHANGED outsideJobs

\* GET /events: the callback of a new stream is registered
ConnectObserver ==
  \E o \in Observers :
    /\ o \notin sseClients[ObserverOrg(o)]
    /\ sseClients' = [sseClients EXCEPT ![ObserverOrg(o)] = @ \cup {o}]
    /\ emitted' = <<>>
    /\ UNCHANGED <<jobs, remittances, objects, pipelines, retries, jobResponse, runs>>
    /\ UNCHANGED outsideJobs

\* stream.onAbort: the callback is removed
DisconnectObserver ==
  \E o \in Observers :
    /\ o \in sseClients[ObserverOrg(o)]
    /\ sseClients' = [sseClients EXCEPT ![ObserverOrg(o)] = @ \ {o}]
    /\ emitted' = <<>>
    /\ UNCHANGED <<jobs, remittances, objects, pipelines, retries, jobResponse, runs>>
    /\ UNCHANGED outsideJobs

\* POST /upload: the job is inserted, job_created is emitted and
\* processRemittanceAsync is called, which runs up to its first await.
Upload ==
  \E organizationId \in Orgs, fileName \in FileNames :
    LET jobId == JobId(Len(jobs) + 1)
    IN  /\ Len(jobs) < MaxJobs
        /\ runs < MaxRuns
        /\ jobs' = Append(jobs, NewJob(Len(jobs) + 1, organizationId, fileName))
        /\ emitted' = emitEvent(organizationId, "job_created", jobId, "queued")
        /\ pipelines' = pipelines \cup
                          {Pipeline(runs + 1, organizationId, jobId, Bytes(runs + 1), fileName)}
        /\ runs' = runs + 1
        /\ jobResponse' = Response("upload", organizationId, jobId, "none")
        /\ UNCHANGED <<remittances, objects, retries, sseClients>>
        /\ UNCHANGED outsideJobs

\* RetryError without the status check
RetryErrorAnyStatus(found) ==
  IF found = <<>> THEN "Job not found"
  ELSE IF found[1].fileKey = "none" THEN "No file to retry"
  ELSE "none"

\* the error POST /jobs/:id/retry answers after its findOne, "none" when the
\* request passes the checks
RetryError(found) ==
  IF found = <<>> THEN "Job not found"
  ELSE IF found[1].status # "failed" THEN "Can only retry failed jobs"
  ELSE IF found[1].fileKey = "none" THEN "No file to retry"
  ELSE "none"

\* POST /jobs/:id/retry, up to the awaited updateOne: the job is read and
\* the request is rejected or goes on.
RetryRequest ==
  \E organizationId \in Orgs, n \in 1..MaxJobs :
    LET found == findJob(jobs, organizationId, JobId(n))
        error == RetryError(found)
    IN  /\ emitted' = <<>>
        /\ IF error # "none"
           THEN /\ jobResponse' = Response("retry", organizationId, JobId(n), error)
                /\ UNCHANGED <<retries, runs>>
           ELSE /\ runs < MaxRuns
                /\ retries' = retries \cup
                     {[run |-> runs + 1, organizationId |-> organizationId,
                       jobId |-> JobId(n), fileKey |-> found[1].fileKey,
                       fileName |-> found[1].fileName, pc |-> "reset"]}
                /\ runs' = runs + 1
                /\ UNCHANGED jobResponse
        /\ UNCHANGED <<jobs, remittances, objects, pipelines, sseClients>>
        /\ UNCHANGED outsideJobs

\* the fields the retry request resets
RetryResetFields ==
  [status |-> "queued", progress |-> 0, error |-> "none", currentStep |-> "none",
   completedAt |-> FALSE]

\* POST /jobs/:id/retry: the awaited updateOne and the job_updated event
RetryReset ==
  \E r \in retries, outcome \in CallOutcomes :
    /\ r.pc = "reset"
    /\ IF outcome = "ok"
       THEN /\ jobs' = updateJob(jobs, r.organizationId, r.jobId, RetryResetFields)
            /\ emitted' = emitEvent(r.organizationId, "job_updated", r.jobId, "queued")
            /\ retries' = Replace(retries, r, [r EXCEPT !.pc = "fetch"])
            /\ UNCHANGED jobResponse
       ELSE /\ retries' = retries \ {r}
            /\ emitted' = <<>>
            /\ jobResponse' = Response("retry", r.organizationId, r.jobId, "store error")
            /\ UNCHANGED jobs
    /\ UNCHANGED <<remittances, objects, pipelines, sseClients, runs>>
    /\ UNCHANGED outsideJobs

\* the bytes stored under a key
StoredBytes(key) == (CHOOSE o \in objects : o.key = key).bytes

\* POST /jobs/:id/retry: the file is fetched from storage and
\* processRemittanceAsync is called with it.
RetryFetch ==
  \E r \in retries, outcome \in CallOutcomes :
    /\ r.pc = "fetch"
    /\ retries' = retries \ {r}
    /\ emitted' = <<>>
    /\ IF outcome = "ok"
       THEN /\ pipelines' = pipelines \cup
                 {Pipeline(r.run, r.organizationId, r.jobId, StoredBytes(r.fileKey),
                           r.fileName)}
            /\ jobResponse' = Response("retry", r.organizationId, r.jobId, "none")
       ELSE /\ jobResponse' = Response("retry", r.organizationId, r.jobId, "storage error")
            /\ UNCHANGED pipelines
    /\ UNCHANGED <<jobs, remittances, objects, sseClients, runs>>
    /\ UNCHANGED outsideJobs

\* processRemittanceAsync: an awaited updateJob of the try block, the
\* job_updated event after it and the code up to the next awaited call
PipelineUpdate ==
  \E p \in pipelines, outcome \in CallOutcomes :
    /\ p.pc \in UpdateStages
    /\ IF outcome = "ok"
       THEN /\ jobs' = updateJob(jobs, p.organizationId, p.jobId, StageUpdates(p).updates)
            /\ emitted' = emitEvent(p.organizationId, "job_updated", p.jobId,
                                    StageUpdates(p).status)
            /\ pipelines' = Replace(pipelines, p,
                              IF ThrownAfter(p) # "none" THEN Throw(p, ThrownAfter(p))
                              ELSE MoveTo(p, StageUpdates(p).next))
       ELSE /\ pipelines' = Replace(pipelines, p, Throw(p, "store error"))
            /\ emitted' = <<>>
            /\ UNCHANGED jobs
    /\ UNCHANGED <<remittances, objects, retries, sseClients, jobResponse, runs>>
    /\ UNCHANGED outsideJobs

\* processRemittanceAsync: the PutObjectCommand
PipelinePut ==
  \E p \in pipelines, outcome \in CallOutcomes :
    /\ p.pc = "put"
    /\ emitted' = <<>>
    /\ IF outcome = "ok"
       THEN LET key == ObjectKey(p.organizationId, p.fileName)
            IN  /\ objects' = {o \in objects : o.key # key}
                                \cup {[key |-> key, bytes |-> p.buffer]}
                /\ pipelines' = Replace(pipelines, p, MoveTo(p, "uploaded"))
       ELSE /\ pipelines' = Replace(pipelines, p, Throw(p, "storage error"))
            /\ UNCHANGED objects
    /\ UNCHANGED <<jobs, remittances, retries, sseClients, jobResponse, runs>>
    /\ UNCHANGED outsideJobs

\* processRemittanceAsync: processor.extractRemittance
PipelineExtract ==
  \E p \in pipelines :
    /\ p.pc = "extract"
    /\ emitted' = <<>>
    /\ \/ \E d \in RemittanceDocsExtracted :
            pipelines' = Replace(pipelines, p, [p EXCEPT !.pc = "extracted", !.extracted = d])
       \/ pipelines' = Replace(pipelines, p, Throw(p, "Extraction failed"))
    /\ UNCHANGED <<jobs, remittances, objects, retries, sseClients, jobResponse, runs>>
    /\ UNCHANGED outsideJobs

\* the record processRemittanceAsync inserts
NewRemittance(n, p) ==
  [id |-> RemittanceId(n), organizationId |-> p.organizationId,
   remittanceNumber |-> p.extracted.remittanceNumber,
   sourceFileKey |-> ObjectKey(p.organizationId, p.fileName),
   processingJobId |-> p.jobId]

\* processRemittanceAsync: remittances().insertOne
PipelineInsert ==
  \E p \in pipelines, outcome \in CallOutcomes :
    /\ p.pc = "insert"
    /\ emitted' = <<>>
    /\ IF outcome = "ok"
       THEN /\ remittances' = Append(remittances, NewRemittance(Len(remittances) + 1, p))
            /\ pipelines' = Replace(pipelines, p, MoveTo(p, "complete"))
       ELSE /\ pipelines' = Replace(pipelines, p, Throw(p, "store error"))
            /\ UNCHANGED remittances
    /\ UNCHANGED <<jobs, objects, retries, sseClients, jobResponse, runs>>
    /\ UNCHANGED outsideJobs

\* the id of the remittance a run inserted
SavedRemittanceId(p) ==
  LET mine == SelectSeq(remittances, LAMBDA r : r.processingJobId = p.jobId)
  IN  mine[Len(mine)].id

\* processRemittanceAsync: the last updateJob of the try block and the
\* job_completed event
PipelineComplete ==
  \E p \in pipelines, outcome \in CallOutcomes :
    /\ p.pc = "complete"
    /\ IF outcome = "ok"
       THEN /\ jobs' = updateJob(jobs, p.organizationId, p.jobId,
                         [status |-> "completed", progress |-> 100, completedAt |-> TRUE,
                          result |-> SavedRemittanceId(p)])
            /\ emitted' = emitEvent(p.organizationId, "job_completed", p.jobId, "completed")
            /\ pipelines' = pipelines \ {p}
       ELSE /\ pipelines' = Replace(pipelines, p, Throw(p, "store error"))
            /\ emitted' = <<>>
            /\ UNCHANGED jobs
    /\ UNCHANGED <<remittances, objects, retries, sseClients, jobResponse, runs>>
    /\ UNCHANGED outsideJobs

\* processRemittanceAsync: the catch block
PipelineFail ==
  \E p \in pipelines, outcome \in CallOutcomes :
    /\ p.pc = "catch"
    /\ pipelines' = pipelines \ {p}
    /\ IF outcome = "ok"
       THEN /\ jobs' = updateJob(jobs, p.organizationId, p.jobId,
                         [status |-> "failed", error |-> p.error, completedAt |-> TRUE])
            /\ emitted' = emitEvent(p.organizationId, "job_failed", p.jobId, "failed")
       ELSE /\ emitted' = <<>>
            /\ UNCHANGED jobs
    /\ UNCHANGED <<remittances, objects, retries, sseClients, jobResponse, runs>>
    /\ UNCHANGED outsideJobs

\* POST /upload once more: a file with the name and the organization of an
\* earlier job, with bytes of its own.
UploadAgain ==
  \E k \in 1..Len(jobs) :
    LET jobId == JobId(Len(jobs) + 1)
        organizationId == jobs[k].organizationId
        fileName == jobs[k].fileName
    IN  /\ Len(jobs) = MaxJobs
        /\ runs < MaxRuns
        /\ jobs' = Append(jobs, NewJob(Len(jobs) + 1, organizationId, fileName))
        /\ emitted' = emitEvent(organizationId, "job_created", jobId, "queued")
        /\ pipelines' = pipelines \cup
                          {Pipeline(runs + 1, organizationId, jobId, Bytes(runs + 1), fileName)}
        /\ runs' = runs + 1
        /\ jobResponse' = Response("upload", organizationId, jobId, "none")
        /\ UNCHANGED <<remittances, objects, retries, sseClients>>
        /\ UNCHANGED outsideJobs

JobNext ==
  \/ Upload
  \/ RetryRequest
  \/ RetryReset
  \/ RetryFetch
  \/ PipelineUpdate
  \/ PipelinePut
  \/ PipelineExtract
  \/ PipelineInsert
  \/ PipelineComplete
  \/ PipelineFail

JobSpec == JobInit /\ [][JobNext]_vars

ObserverNext ==
  \/ ConnectObserver
  \/ DisconnectObserver
  \/ JobNext

ObserverSpec == JobInit /\ [][ObserverNext]_vars

\* The uploads of files of one name, and the runs that follow them.
SameNameNext ==
  \/ UploadAgain
  \/ JobNext

SameNameSpec == JobInit /\ [][SameNameNext]_vars

\* ---------------------------------------------------------------- claims
InvoiceOf(id) == CHOOSE d \in {invoices[k] : k \in 1..Len(invoices)} : d.id = id
PaymentOf(id) == CHOOSE d \in {payments[k] : k \in 1..Len(payments)} : d.id = id

ResolvesInvoice(org, id) ==
  \E k \in 1..Len(invoices) : invoices[k].id = id /\ invoices[k].organizationId = org
ResolvesPayment(org, id) ==
  \E k \in 1..Len(payments) : payments[k].id = id /\ payments[k].organizationId = org

StoreUnchanged == UNCHANGED <<invoices, payments, reconciliations, exceptions>>

\* C1: within one autoReconcile invocation no invoiceId and no paymentId
\* appears in more than one of the reconciliations the invocation creates.
C1_AutoReconcileConsumesOnce ==
  last.op = "autoReconcile" =>
    \A a, b \in 1..Len(last.result) :
       a # b => /\ last.result[a].invoiceId # last.result[b].invoiceId
                /\ last.result[a].paymentId # last.result[b].paymentId

\* An invocation that created reconciliations although two suggestions at or
\* above minConfidence shared an invoice or a payment.
C1_Witness ==
  /\ last.op = "autoReconcile"
  /\ Len(last.result) = 2
  /\ \E a, b \in 1..Len(last.suggestions) :
        /\ a # b
        /\ last.suggestions[a].confidence >= last.minConfidence
        /\ last.suggestions[b].confidence >= last.minConfidence
        /\ \/ last.suggestions[a].invoiceId = last.suggestions[b].invoiceId
           \/ last.suggestions[a].paymentId = last.suggestions[b].paymentId

\* C2: createReconciliation returns null whenever the invoice or the payment
\* does not resolve in the organization, and then writes nothing.
C2_UnresolvedReturnsNullNoWrites ==
  [][(/\ last'.op = "createReconciliation"
      /\ \/ ~ResolvesInvoice(last'.organizationId, last'.invoiceId)
         \/ ~ResolvesPayment(last'.organizationId, last'.paymentId))
     => (last'.result = <<>> /\ StoreUnchanged)]_vars

\* A call that named an invoice of another organization and returned null.
C2_Witness ==
  /\ last.op = "createReconciliation"
  /\ last.result = <<>>
  /\ \E k \in 1..Len(invoices) :
        invoices[k].id = last.invoiceId /\ invoices[k].organizationId # last.organizationId
  /\ ResolvesPayment(last.organizationId, last.paymentId)

\* C3: generateSuggestions returns no suggestion for a pair whose currencies
\* differ.
C3_NoSuggestionAcrossCurrencies ==
  last.op \in {"generateSuggestions"} =>
    \A k \in 1..Len(last.result) :
       InvoiceOf(last.result[k].invoiceId).currency
         = PaymentOf(last.result[k].paymentId).currency

\* A call that returned suggestions while the organization held a pending
\* invoice and an unreconciled payment of different currencies.
C3_Witness ==
  /\ last.op = "generateSuggestions"
  /\ Len(last.result) > 0
  /\ \E i \in 1..Len(invoices), p \in 1..Len(payments) :
        /\ invoices[i].organizationId = last.organizationId
        /\ payments[p].organizationId = last.organizationId
        /\ invoices[i].status = "pending"
        /\ payments[p].status \in {"pending", "unmatched"}
        /\ invoices[i].currency # payments[p].currency

\* C4: every suggestion returned has 0.30 < confidence <= 1.0 and the list is
\* ordered by non-increasing confidence.
C4_ConfidenceBoundsAndOrder ==
  last.op = "generateSuggestions" =>
    /\ \A k \in 1..Len(last.result) :
          /\ last.result[k].confidence > 3000
          /\ last.result[k].confidence <= 10000
    /\ \A k \in 1..(Len(last.result) - 1) :
          last.result[k].confidence >= last.result[k + 1].confidence

\* A call that scored four pairs, discarded the two below the 0.30 floor,
\* and returned the other two with the pair enumerated last in front.
C4_Witness ==
  /\ last.op = "generateSuggestions"
  /\ Len(getUnreconciledInvoices(CurrentStore, last.organizationId)) = 2
  /\ Len(getUnreconciledPayments(CurrentStore, last.organizationId)) = 2
  /\ Len(last.result) = 2
  /\ last.result[1].invoiceId = InvoiceId(2)
  /\ last.result[2].invoiceId = InvoiceId(1)
  /\ last.result[1].confidence = 10000
  /\ last.result[2].confidence = 7000

\* The organization's only unreconciled records are one pending invoice and
\* one pending payment of the same currency, amounts within the tolerance, the
\* payment's description containing the invoice number.
SoleExactReferencedPair(org) ==
  LET is == {i \in 1..Len(invoices) :
               invoices[i].organizationId = org /\ invoices[i].status = "pending"}
      ps == {p \in 1..Len(payments) :
               payments[p].organizationId = org
               /\ payments[p].status \in {"pending", "unmatched"}}
  IN  /\ Cardinality(is) = 1
      /\ Cardinality(ps) = 1
      /\ \A i \in is, p \in ps :
            /\ payments[p].status = "pending"
            /\ invoices[i].currency = payments[p].currency
            /\ Abs(invoices[i].amount - payments[p].amount) <= 1
            /\ Includes(ToLowerCase(payments[p].description),
                        ToLowerCase(invoices[i].invoiceNumber))

SoleInvoice(org) ==
  CHOOSE i \in 1..Len(invoices) :
     invoices[i].organizationId = org /\ invoices[i].status = "pending"
SolePayment(org) ==
  CHOOSE p \in 1..Len(payments) :
     payments[p].organizationId = org /\ payments[p].status \in {"pending", "unmatched"}

\* C5: for such a pair (A, B) generateSuggestions returns (A, B) with
\* confidence >= 0.80, and autoReconcile with the default threshold creates
\* exactly one reconciliation, for (A, B), exact and approved, and leaves A
\* and B matched.
C5_ExactReferencedPairAutoReconciled ==
  [][LET org == last'.organizationId
         i == SoleInvoice(org)
         p == SolePayment(org)
         suggested(list) ==
           \E k \in 1..Len(list) :
              /\ list[k].invoiceId = invoices[i].id
              /\ list[k].paymentId = payments[p].id
              /\ list[k].confidence >= 8000
     IN  /\ (last'.op = "generateSuggestions" /\ SoleExactReferencedPair(org))
            => suggested(last'.result)
         /\ (/\ last'.op = "autoReconcile"
             /\ last'.minConfidence = 8000
             /\ SoleExactReferencedPair(org))
            => /\ suggested(last'.suggestions)
               /\ Len(last'.result) = 1
               /\ last'.result[1].invoiceId = invoices[i].id
               /\ last'.result[1].paymentId = payments[p].id
               /\ last'.result[1].matchType = "exact"
               /\ last'.result[1].status = "approved"
               /\ reconciliations' = Append(reconciliations, last'.result[1])
               /\ invoices'[i].status = "matched"
               /\ payments'[p].status = "matched"]_vars

\* An autoReconcile call with the default threshold that reconciled the sole
\* pending pair of its organization, other records of the organization being
\* reconciled already.
C5_Witness ==
  /\ last.op = "autoReconcile"
  /\ last.minConfidence = 8000
  /\ Len(last.result) = 1
  /\ Len(last.suggestions) = 1
  /\ last.result[1].matchType = "exact"
  /\ last.result[1].matchedBy = "auto"
  /\ Len(reconciliations) = 2
  /\ \A k \in 1..Len(invoices) : invoices[k].organizationId = last.organizationId
  /\ InvoiceOf(last.result[1].invoiceId).amount # PaymentOf(last.result[1].paymentId).amount

\* C6: createReconciliation for a same-currency pair whose payment exceeds
\* the invoice by more than 0.01 yields matchType overpayment, discrepancyType
\* amount_mismatch and status pending_review, sets the invoice to matched and
\* the payment to partially_matched, and creates exactly one open
\* amount_discrepancy exception, of severity high iff the discrepancy exceeds
\* 1000, medium iff it exceeds 100 and not 1000, low otherwise.
C6_OverpaymentOutcome ==
  [][\A i \in 1..Len(invoices), p \in 1..Len(payments) :
       (/\ last'.op = "createReconciliation"
        /\ last'.invoiceId = invoices[i].id
        /\ last'.paymentId = payments[p].id
        /\ last'.organizationId = invoices[i].organizationId
        /\ last'.organizationId = payments[p].organizationId
        /\ invoices[i].currency = payments[p].currency
        /\ payments[p].amount - invoices[i].amount > 1)
       => LET d == payments[p].amount - invoices[i].amount
              e == exceptions'[Len(exceptions')]
          IN  /\ Len(last'.result) = 1
              /\ last'.result[1].matchType = "overpayment"
              /\ last'.result[1].discrepancyAmount = d
              /\ last'.result[1].discrepancyType = "amount_mismatch"
              /\ last'.result[1].status = "pending_review"
              /\ reconciliations' = Append(reconciliations, last'.result[1])
              /\ invoices'[i].status = "matched"
              /\ payments'[p].status = "partially_matched"
              /\ Len(exceptions') = Len(exceptions) + 1
              /\ SubSeq(exceptions', 1, Len(exceptions)) = exceptions
              /\ e.type = "amount_discrepancy"
              /\ e.status = "open"
              /\ e.invoiceId = invoices[i].id
              /\ e.paymentId = payments[p].id
              /\ e.reconciliationId = last'.result[1].id
              /\ e.severity = "high" <=> d > 100000
              /\ e.severity = "medium" <=> (d > 10000 /\ d <= 100000)
              /\ e.severity = "low" <=> d <= 10000]_vars

\* An overpayment of exactly 100.00 reconciled, its exception of severity low.
C6_Witness ==
  /\ last.op = "createReconciliation"
  /\ Len(last.result) = 1
  /\ last.result[1].matchType = "overpayment"
  /\ last.result[1].discrepancyAmount = 10000
  /\ Len(exceptions) = 1
  /\ exceptions[1].severity = "low"
  /\ exceptions[1].type = "amount_discrepancy"

\* C7: an identifyExceptions call made after an earlier one of the same
\* organization, with no invoice or payment new to the pass (none created,
\* none newly overdue) and no exception resolved in between, creates no
\* exception and returns the empty list.
C7_SecondIdentifyCreatesNothing ==
  (last.op = "identifyExceptions" /\ last.wasQuiet) => last.result = <<>>

\* A second pass that returned nothing while exceptions of the first pass
\* stood unresolved for the organization.
C7_Witness ==
  /\ last.op = "identifyExceptions"
  /\ last.wasQuiet
  /\ last.result = <<>>
  /\ \E k \in 1..Len(exceptions) :
        /\ exceptions[k].organizationId = last.organizationId
        /\ exceptions[k].type = "unmatched_payment"
        /\ exceptions[k].status = "in_review"
  /\ \E k \in 1..Len(exceptions) :
        /\ exceptions[k].organizationId = last.organizationId
        /\ exceptions[k].type = "unmatched_invoice"

\* C8: each invoiceId and each paymentId is referenced by at most one
\* exception whose status is open or in_review.
C8_OneActiveExceptionPerEntity ==
  \A a, b \in 1..Len(exceptions) :
     (/\ a # b
      /\ exceptions[a].status \in {"open", "in_review"}
      /\ exceptions[b].status \in {"open", "in_review"})
     => /\ exceptions[a].invoiceId = NoId \/ exceptions[a].invoiceId # exceptions[b].invoiceId
        /\ exceptions[a].paymentId = NoId \/ exceptions[a].paymentId # exceptions[b].paymentId


\* the step the engine is visiting, looked up in the definition
VisitedStep ==
  LET steps == getWorkflow(wfId).steps
  IN  steps[CHOOSE k \in 1..Len(steps) : steps[k].id = currentStepId]

LastResult(exec) == exec.stepResults[Len(exec.stepResults)]

\* a step of the model in which the engine calls executeStep
IsAttempt ==
  /\ wfPc \in {"step", "retry"}
  /\ visits' # visits \/ attempts' # attempts

\* One attempt of a step, as the claim C9 constrains it.
RetriesThenOneStepResult ==
  IsAttempt =>
    LET step == VisitedStep
        n == step.retryCount
    IN  IF wfPc' = "retry"
        THEN /\ execution'.stepResults = execution.stepResults
             /\ attempts' <= n
        ELSE /\ execution'.stepResults =
                  Append(execution.stepResults, LastResult(execution'))
             /\ LastResult(execution').stepId = step.id
             /\ lastVisit'.attempts <= n + 1
             /\ (LastResult(execution').status = "failure" /\ n > 0) =>
                  (/\ lastVisit'.attempts = n + 1
                   /\ IF step.onFailure # "none"
                      THEN /\ currentStepId' = step.onFailure
                           /\ execution'.status # "failed"
                      ELSE /\ execution'.status = "failed"
                           /\ wfPc' = "done")

\* C9: a step with retryCount = n > 0 that fails on every attempt is run
\* exactly n + 1 times and the engine then goes to onFailure or fails the
\* execution; every visit of a step, however it ends, adds exactly one entry
\* for that step to the execution's stepResults, and an attempt that does not
\* end the visit adds none.
C9_RetriesThenOneStepResult == [][RetriesThenOneStepResult]_vars

C9_Witness ==
  /\ lastVisit.outcome = "exhausted"
  /\ lastVisit.stepId = "extract"
  /\ lastVisit.attempts = 3
  /\ execution.status = "failed"
  /\ Len(execution.stepResults) = 3
  /\ LastResult(execution) = StepResult("extract", "failure", "Extraction failed")

\* One attempt of a step of an execution without organizationId, as the
\* claim C10 constrains it.
SaveWithoutOrganizationFails ==
  (IsAttempt /\ wfInput.organizationId = "none") =>
    /\ invoices' = invoices
    /\ payments' = payments
    /\ (VisitedStep.type = "save") =>
         (\/ wfPc' = "retry"
          \/ /\ LastResult(execution').stepId = VisitedStep.id
             /\ LastResult(execution').status = "failure"
             /\ LastResult(execution').error \in
                  {"No extracted data to save",
                   "No organizationId provided for save step"})

\* C10: an attempt of a save step of an execution whose input carries no
\* organizationId throws, and no step of such an execution adds an invoice or
\* a payment to the ledger.
C10_SaveWithoutOrganizationFails == [][SaveWithoutOrganizationFails]_vars

C10_Witness ==
  /\ wfInput.organizationId = "none"
  /\ lastVisit.stepId = "save"
  /\ execution.status = "failed"
  /\ execution.error = "No organizationId provided for save step"
  /\ output.extractedData # <<>>
  /\ invoices = <<>>
  /\ payments = <<>>


\* C11: no two processRemittanceAsync runs are in flight for the same job.
C11_OnePipelinePerJob ==
  \A p, q \in pipelines : p.jobId = q.jobId => p = q

\* the status after s on the path of a run
NextStatus(s) ==
  CASE s = "queued" -> "uploading"
    [] s = "uploading" -> "processing"
    [] s = "processing" -> "extracting"
    [] s = "extracting" -> "validating"
    [] s = "validating" -> "saving"
    [] s = "saving" -> "completed"
    [] OTHER -> "none"

AllowedStatusChange(from, to) ==
  \/ to = NextStatus(from)
  \/ from \notin {"completed", "failed"} /\ to = "failed"
  \/ from = "failed" /\ to = "queued"

StatusChangesAllowed ==
  \A k \in 1..Len(jobs) :
     jobs'[k].status # jobs[k].status =>
       AllowedStatusChange(jobs[k].status, jobs'[k].status)

\* C12: a job's status changes only one step along queued, uploading,
\* processing, extracting, validating, saving, completed, or from a
\* non-terminal status to failed, or from failed to queued; the status of a
\* completed job never changes.
C12_StatusChangesAllowed == [][StatusChangesAllowed]_vars


RetryRejections == {"Job not found", "Can only retry failed jobs", "No file to retry"}

\* the job a retry request names, as the ledger holds it
JobsNamed(js, organizationId, jobId) ==
  {k \in 1..Len(js) : js[k].id = jobId /\ js[k].organizationId = organizationId}

Retryable(organizationId, jobId) ==
  \E k \in JobsNamed(jobs, organizationId, jobId) :
     jobs[k].status = "failed" /\ jobs[k].fileKey # "none"

\* One step, as the claim C13 constrains it.
RetryChecked ==
  /\ (/\ jobResponse' # jobResponse
      /\ jobResponse'.op = "retry"
      /\ jobResponse'.error \in RetryRejections)
     => /\ ~Retryable(jobResponse'.organizationId, jobResponse'.jobId)
        /\ jobs' = jobs
        /\ emitted' = <<>>
        /\ pipelines' = pipelines
        /\ retries' = retries
  /\ \A r \in retries' \ retries :
       r.pc = "reset" =>
         /\ Retryable(r.organizationId, r.jobId)
         /\ jobs' = jobs
         /\ pipelines' = pipelines
  /\ \A r \in retries :
       (r.pc = "reset" /\ [r EXCEPT !.pc = "fetch"] \in retries') =>
         /\ \A k \in JobsNamed(jobs', r.organizationId, r.jobId) :
              /\ jobs'[k].status = "queued"
              /\ jobs'[k].progress = 0
              /\ jobs'[k].error = "none"
              /\ jobs'[k].currentStep = "none"
              /\ jobs'[k].completedAt = FALSE
         /\ Len(emitted') = 1
         /\ emitted'[1].type = "job_updated"
         /\ emitted'[1].jobId = r.jobId
         /\ emitted'[1].status = "queued"
         /\ pipelines' = pipelines
  /\ \A p \in pipelines' \ pipelines :
       \A r \in retries : r.run = p.run => r.pc = "fetch"

\* C13: a retry request for a job that is not failed, or has no fileKey, or
\* is not a job of the organization, is rejected, changes no job, emits no
\* event and starts no run; a request that passes sets status queued and
\* progress 0 and clears error, currentStep and completedAt, emits
\* job_updated, and only then starts the run.
C13_RetryCheckedThenReset == [][RetryChecked]_vars

\* A retry rejected because an earlier retry had already reset the job.
C13_Witness ==
  /\ jobResponse.op = "retry"
  /\ jobResponse.error = "Can only retry failed jobs"
  /\ \E k \in JobsNamed(jobs, jobResponse.organizationId, jobResponse.jobId) :
        /\ jobs[k].status = "queued"
        /\ jobs[k].fileKey # "none"
        /\ jobs[k].error = "none"
        /\ jobs[k].completedAt = FALSE
  /\ \E r \in retries : r.pc = "fetch"


\* C14: a completed execution's output carries a savedRecordId, and the
\* invoice or payment of that id is in the ledger.
C14_CompletedHasSavedRecord ==
  execution.status = "completed" =>
    /\ execution.output # <<>>
    /\ execution.output[1].savedRecordId # NoId
    /\ \/ \E k \in 1..Len(invoices) : invoices[k].id = execution.output[1].savedRecordId
       \/ \E k \in 1..Len(payments) : payments[k].id = execution.output[1].savedRecordId

\* The records of one organization, and a store without the ids nanoid()
\* gives to the reconciliations and exceptions a call creates.
Restrict(st, org) ==
  Store(SelectSeq(st.invoices, LAMBDA d : d.organizationId = org),
        SelectSeq(st.payments, LAMBDA d : d.organizationId = org),
        SelectSeq(st.reconciliations, LAMBDA d : d.organizationId = org),
        SelectSeq(st.exceptions, LAMBDA d : d.organizationId = org))

WithoutIds(list) ==
  [k \in 1..Len(list) |->
     IF "reconciliationId" \in DOMAIN list[k]
     THEN [list[k] EXCEPT !.id = NoId,
                          !.reconciliationId = IF @ = NoId THEN "none" ELSE "created"]
     ELSE IF "id" \in DOMAIN list[k] THEN [list[k] EXCEPT !.id = NoId]
     ELSE list[k]]

StoreWithoutIds(st) ==
  Store(st.invoices, st.payments, WithoutIds(st.reconciliations), WithoutIds(st.exceptions))

\* The call that last describes, made on the store st.
CallOn(st, call, now) ==
  CASE call.op = "generateSuggestions" ->
         [store |-> st, result |-> generateSuggestions(st, call.organizationId)]
    [] call.op = "getDashboardStats" ->
         [store |-> st, result |-> <<getDashboardStats(st, call.organizationId)>>]
    [] call.op = "autoReconcile" ->
         autoReconcile(st, call.organizationId, call.minConfidence)
    [] call.op = "createReconciliation" ->
         createReconciliation(st, call.organizationId, call.invoiceId, call.paymentId,
                              "manual")
    [] call.op = "identifyExceptions" ->
         identifyExceptions(st, call.organizationId, now)

ForeignId(call) ==
  \/ \E k \in 1..Len(invoices) :
        invoices[k].id = call.invoiceId /\ invoices[k].organizationId # call.organizationId
  \/ \E k \in 1..Len(payments) :
        payments[k].id = call.paymentId /\ payments[k].organizationId # call.organizationId

CallIsolated ==
  LET before == CurrentStore
      after == Store(invoices', payments', reconciliations', exceptions')
      org == last'.organizationId
      alone == CallOn(Restrict(before, org), last', today)
  IN  last'.op \in {"generateSuggestions", "getDashboardStats", "autoReconcile",
                    "createReconciliation", "identifyExceptions"}
      => /\ \A other \in Orgs \ {org} : Restrict(after, other) = Restrict(before, other)
         /\ WithoutIds(last'.result) = WithoutIds(alone.result)
         /\ StoreWithoutIds(Restrict(after, org)) = StoreWithoutIds(alone.store)
         /\ (last'.op = "createReconciliation" /\ ForeignId(last'))
              => last'.result = <<>> /\ after = before

\* C15: a call of generateSuggestions, autoReconcile, createReconciliation,
\* identifyExceptions or getDashboardStats for an organization returns what it
\* returns on the store that holds that organization's records only (up to
\* the fresh ids of the records it creates), leaves that organization's
\* records as the call on that store leaves them, leaves every record of
\* another organization as it was, and createReconciliation given the id of
\* another organization's invoice or payment returns null and writes nothing.
C15_CallsIsolated == [][CallIsolated]_vars

\* An automatic reconciliation of orgA's pair while orgB holds a pending
\* invoice and a pending payment that refers to it.
C15_Witness ==
  /\ last.op = "autoReconcile"
  /\ last.organizationId = "orgA"
  /\ Len(last.result) = 1
  /\ \E k \in 1..Len(invoices) :
        invoices[k].organizationId = "orgB" /\ invoices[k].status = "pending"
  /\ \E k \in 1..Len(payments) :
        payments[k].organizationId = "orgB" /\ payments[k].status = "pending"

\* The place of a suggestion's pair in the enumeration: the invoice's place in
\* the collection first, the payment's place second.
InvoicePlace(id) == CHOOSE k \in 1..Len(invoices) : invoices[k].id = id
PaymentPlace(id) == CHOOSE k \in 1..Len(payments) : payments[k].id = id

EnumeratedBefore(a, b) ==
  \/ InvoicePlace(a.invoiceId) < InvoicePlace(b.invoiceId)
  \/ /\ InvoicePlace(a.invoiceId) = InvoicePlace(b.invoiceId)
     /\ PaymentPlace(a.paymentId) < PaymentPlace(b.paymentId)

SuggestionsRepeatable ==
  last'.op = "generateSuggestions"
  => /\ StoreUnchanged
     /\ generateSuggestions(Store(invoices', payments', reconciliations', exceptions'),
                            last'.organizationId) = last'.result
     /\ (last.op = "generateSuggestions" /\ last.organizationId = last'.organizationId)
          => last'.result = last.result
     /\ \A k \in 1..Len(last'.result), j \in 1..Len(last'.result) :
           (k < j /\ last'.result[k].confidence = last'.result[j].confidence)
             => EnumeratedBefore(last'.result[k], last'.result[j])

EventTypeOf(isNew, status) ==
  IF isNew THEN "job_created"
  ELSE IF status = "completed" THEN "job_completed"
  ELSE IF status = "failed" THEN "job_failed"
  ELSE "job_updated"

EventsOf(events, jobId) == SelectSeq(events, LAMBDA e : e.jobId = jobId)

StatusChangeEmits ==
  /\ \A k \in 1..Len(jobs') :
        (k > Len(jobs) \/ jobs'[k].status # jobs[k].status)
        => LET es == EventsOf(emitted', jobs'[k].id)
           IN  /\ Len(es) = 1
               /\ es[1].type = EventTypeOf(k > Len(jobs), jobs'[k].status)
               /\ es[1].status = jobs'[k].status
               /\ es[1].to = {o \in Observers : o \in sseClients'[jobs'[k].organizationId]}
               /\ \A o \in es[1].to : ObserverOrg(o) = jobs'[k].organizationId
  /\ \A n \in 1..Len(emitted') :
        emitted'[n].type \in {"job_completed", "job_failed"}
        => \E k \in 1..Len(jobs') :
              /\ jobs'[k].id = emitted'[n].jobId
              /\ jobs'[k].status = emitted'[n].status
              /\ emitted'[n].type = EventTypeOf(FALSE, jobs'[k].status)

\* C17: a step that creates a job or changes a job's status emits one event
\* for the job, of the type that goes with the change and carrying the new
\* status, to exactly the observers registered for the job's organization, all
\* of them observers of that organization; a job_completed or job_failed event
\* is emitted with the job record already holding that status.
C17_StatusChangeEmits == [][StatusChangeEmits]_vars

\* A job of orgA completed while observers of both organizations were
\* connected: the event went to the two observers of orgA only.
C17_Witness ==
  /\ Len(emitted) = 1
  /\ emitted[1].type = "job_completed"
  /\ emitted[1].to = {"o1", "o2"}
  /\ sseClients["orgB"] = {"o3"}
  /\ \E k \in 1..Len(jobs) : jobs[k].id = emitted[1].jobId /\ jobs[k].status = "completed"

\* The requests and runs in flight that will still write to a job.
InFlightFor(job) ==
  \/ \E p \in pipelines : p.jobId = job.id /\ p.organizationId = job.organizationId
  \/ \E r \in retries : r.jobId = job.id /\ r.organizationId = job.organizationId

\* C18: a job whose status is neither completed nor failed has a pipeline
\* run or a retry request in flight for it, and a failed job carries the
\* message of the error that was thrown.
C18_NoJobLeftBehind ==
  \A k \in 1..Len(jobs) :
     /\ jobs[k].status \notin {"completed", "failed"} => InFlightFor(jobs[k])
     /\ jobs[k].status = "failed" => jobs[k].error # "none"

\* The step the last visit was of.
LastVisitedStep == FindStep(getWorkflow(wfId), lastVisit.stepId)[1]

\* C19: right after a visit in which the step failed and then succeeded on a
\* retry, the output, the next step and the step result are those of a success on
\* the first attempt: a classify step has set documentType, an extract step
\* extractedData, a save step savedRecordId, the next step is onSuccess and
\* the visit's one step result is a success.
C19_RetrySuccessAsFirstSuccess ==
  (lastVisit.outcome = "retried" /\ wfPc # "retry") =>
    /\ LastVisitedStep.type = "classify" => output.documentType # "none"
    /\ LastVisitedStep.type = "extract" => output.extractedData # <<>>
    /\ LastVisitedStep.type = "save" => output.savedRecordId # NoId
    /\ lastVisit.next = LastVisitedStep.onSuccess
    /\ Len(execution.stepResults) = visits
    /\ execution.stepResults[visits] = StepResult(lastVisit.stepId, "success", "none")

\* The end of a visit whose step result is a failure, as the claim C20
\* constrains it, and an execution that has failed.
FailureTakesOnFailure ==
  /\ (IsAttempt /\ wfPc' # "retry"
      /\ Len(execution'.stepResults) > 0
      /\ LastResult(execution').status = "failure")
     => LET step == VisitedStep
            error == LastResult(execution').error
        IN  /\ error # "none"
            /\ execution'.stepResults =
                 Append(execution.stepResults, StepResult(step.id, "failure", error))
            /\ IF step.onFailure # "none"
               THEN /\ currentStepId' = step.onFailure
                    /\ wfPc' = "step"
                    /\ execution'.status = "running"
                    /\ ~execution'.completed
               ELSE /\ wfPc' = "done"
                    /\ execution'.status = "failed"
                    /\ execution'.completed
                    /\ execution'.error = error
  /\ execution.status = "failed"
     => \/ execution'.stepResults = execution.stepResults
        \/ execution'.stepResults = <<>>

\* C20: a visit that ends in failure pushes one failure step result with the
\* step's error; with an onFailure target the execution keeps running at that
\* target; without one the execution is failed, completed, and its error is
\* the step result's error, and no step result is added to it afterwards.
C20_FailureTakesOnFailure == [][FailureTakesOnFailure]_vars

\* The payment workflow's classify step, which has no retries and no
\* onFailure, threw: the execution failed with the processor's error.
C20_Witness ==
  /\ wfId = "payment-processing"
  /\ lastVisit = [stepId |-> "classify", outcome |-> "failed", attempts |-> 1,
                  next |-> "none"]
  /\ execution.status = "failed"
  /\ execution.completed
  /\ execution.error = "processor error"
  /\ execution.stepResults = <<StepResult("upload", "success", "none"),
                               StepResult("classify", "failure", "processor error")>>


\* The statuses the claim C21 gives for a payment amount less the invoice amount.
ExpectedStatuses(diff) ==
  IF diff >= -1 /\ diff <= 1
  THEN [invoice |-> "matched", payment |-> "matched", reconciliation |-> "approved"]
  ELSE IF diff < 0
  THEN [invoice |-> "partially_matched", payment |-> "matched",
        reconciliation |-> "pending_review"]
  ELSE [invoice |-> "matched", payment |-> "partially_matched",
        reconciliation |-> "pending_review"]

ReconciliationSetsStatuses ==
  \A i \in 1..Len(invoices), p \in 1..Len(payments) :
     (/\ last'.op = "createReconciliation"
      /\ last'.invoiceId = invoices[i].id
      /\ last'.paymentId = payments[p].id
      /\ last'.organizationId = invoices[i].organizationId
      /\ last'.organizationId = payments[p].organizationId)
     => LET expected == ExpectedStatuses(payments[p].amount - invoices[i].amount)
        IN  /\ Len(last'.result) = 1
            /\ invoices'[i].status = expected.invoice
            /\ payments'[p].status = expected.payment
            /\ last'.result[1].status = expected.reconciliation
            /\ reconciliations'[Len(reconciliations')].status = expected.reconciliation

\* C21: a createReconciliation call that resolves both records leaves them
\* both matched and the reconciliation approved when the amounts differ by at
\* most 0.01; the invoice partially_matched, the payment matched and the
\* reconciliation pending_review when the payment is smaller beyond that; the
\* invoice matched, the payment partially_matched and the reconciliation
\* pending_review when the payment is larger beyond that.
C21_ReconciliationSetsStatuses == [][ReconciliationSetsStatuses]_vars

\* An underpayment of 0.02 reconciled by hand.
C21_Witness ==
  /\ last.op = "createReconciliation"
  /\ Len(last.result) = 1
  /\ last.result[1].discrepancyAmount = -2
  /\ last.result[1].status = "pending_review"
  /\ InvoiceOf(last.invoiceId).status = "partially_matched"
  /\ PaymentOf(last.paymentId).status = "matched"


\* The suggestions among the first k of list that a pass over the list
\* reconciles: those at or above the threshold whose records are in the
\* store and that share no invoice and no payment with one reconciled before.
RECURSIVE Reconciled(_, _, _, _, _)
Reconciled(list, k, minConfidence, invoiceIds, paymentIds) ==
  IF k = 0 THEN {}
  ELSE LET before == Reconciled(list, k - 1, minConfidence, invoiceIds, paymentIds)
       IN  IF /\ list[k].confidence >= minConfidence
              /\ list[k].invoiceId \in invoiceIds
              /\ list[k].paymentId \in paymentIds
              /\ \A j \in before : /\ list[j].invoiceId # list[k].invoiceId
                                   /\ list[j].paymentId # list[k].paymentId
           THEN before \cup {k} ELSE before

PassReconcilesAbove ==
  last'.op = "autoReconcile"
  => LET list == last'.suggestions
         org == last'.organizationId
         taken == Reconciled(list, Len(list), last'.minConfidence,
                    {invoices'[k].id : k \in {n \in 1..Len(invoices') :
                                               invoices'[n].organizationId = org}},
                    {payments'[k].id : k \in {n \in 1..Len(payments') :
                                               payments'[n].organizationId = org}})
         order == SelectSeq([k \in 1..Len(list) |-> k], LAMBDA k : k \in taken)
     IN  /\ reconciliations' = reconciliations \o last'.result
         /\ Len(last'.result) = Len(order)
         /\ \A n \in 1..Len(order) :
               /\ last'.result[n].invoiceId = list[order[n]].invoiceId
               /\ last'.result[n].paymentId = list[order[n]].paymentId
               /\ list[order[n]].confidence >= last'.minConfidence

\* C22: an autoReconcile call creates reconciliations exactly for the
\* suggestions at or above minConfidence whose invoice and payment still
\* resolve and that share no record with a suggestion reconciled earlier in
\* the pass, in the order of the suggestions, and returns exactly those; a
\* suggestion for which createReconciliation returned null consumes neither
\* its invoice nor its payment.
C22_PassReconcilesAbove == [][PassReconcilesAbove]_vars

\* The first suggestion's invoice was gone, createReconciliation returned
\* null for it, and the second suggestion, for the same payment, was
\* reconciled.
C22_Witness ==
  /\ last.op = "autoReconcile"
  /\ Len(last.suggestions) >= 2
  /\ last.suggestions[1].confidence >= last.minConfidence
  /\ ~ResolvesInvoice(last.organizationId, last.suggestions[1].invoiceId)
  /\ last.suggestions[2].paymentId = last.suggestions[1].paymentId
  /\ Len(last.result) = 1
  /\ last.result[1].invoiceId = last.suggestions[2].invoiceId
  /\ last.result[1].paymentId = last.suggestions[1].paymentId


\* A step that has a step result in the execution already was run again.
StepRunAgain ==
  \E a, b \in 1..Len(execution.stepResults) :
     a < b /\ execution.stepResults[a].stepId = execution.stepResults[b].stepId

\* C23: an execution that comes back to a step it has run already does not go
\* on: it is failed with the error 'workflow cycle detected'.
C23_CycleDetected ==
  StepRunAgain =>
    /\ wfPc = "done"
    /\ execution.status = "failed"
    /\ execution.error = "workflow cycle detected"



\* C24: every run for the first job uploaded, the run its upload started and
\* the runs its retries start, processes the bytes of that first upload,
\* whatever other jobs were uploaded since.
C24_RetryProcessesOwnBytes ==
  \A p \in pipelines : p.jobId = JobId(1) => p.buffer = Bytes(1)


\* The organization of the job an event is about.
EventOrg(event) ==
  (CHOOSE j \in {jobs'[k] : k \in 1..Len(jobs')} : j.id = event.jobId).organizationId

ObserverReceivesWhileConnected ==
  \A o \in Observers :
     /\ \A n \in 1..Len(emitted') :
           o \in emitted'[n].to
           <=> (o \in sseClients[ObserverOrg(o)] /\ EventOrg(emitted'[n]) = ObserverOrg(o))
     /\ (o \in sseClients[ObserverOrg(o)]) # (o \in sseClients'[ObserverOrg(o)])
          => \A n \in 1..Len(emitted') : o \notin emitted'[n].to
     /\ \A org \in Orgs \ {ObserverOrg(o)} : o \notin sseClients'[org]

SecondPassCreatesNothing ==
  (last'.op = "autoReconcile" /\ last'.wasQuiet)
  => /\ last'.result = <<>>
     /\ StoreUnchanged

\* C26: an autoReconcile call that directly follows an autoReconcile call of
\* the same organization with the same minConfidence creates no
\* reconciliation and no exception and changes no invoice or payment.
C26_SecondPassCreatesNothing == [][SecondPassCreatesNothing]_vars

\* A second pass that created nothing after a first pass that reconciled a
\* pair and left a pending invoice and a pending payment whose pair scores
\* below the threshold.
C26_Witness ==
  /\ last.op = "autoReconcile"
  /\ last.wasQuiet
  /\ last.result = <<>>
  /\ Len(last.suggestions) > 0
  /\ \E k \in 1..Len(reconciliations) :
        /\ reconciliations[k].matchedBy = "auto"
        /\ reconciliations[k].organizationId = last.organizationId


ProgressValues == {0, 10, 20, 30, 50, 70, 80, 90, 100}

\* a step of a processRemittanceAsync run
IsPipelineStep == \E p \in pipelines : p \notin pipelines'

ProgressAdvances ==
  \A k \in 1..Len(jobs) :
     /\ jobs'[k].progress \in ProgressValues
     /\ jobs'[k].progress = 100 <=> jobs'[k].status = "completed"
     /\ IsPipelineStep => jobs'[k].progress >= jobs[k].progress
     /\ (jobs'[k].status = "failed" /\ jobs[k].status # "failed")
          => jobs'[k].progress = jobs[k].progress

\* C27: a job's progress is one of 0, 10, 20, 30, 50, 70, 80, 90, 100, it is
\* 100 exactly when the status is completed, no step of a pipeline run lowers
\* it, and the step to failed leaves it as it was.
C27_ProgressAdvances == [][ProgressAdvances]_vars


\* C28: updateReconciliationStatus changes only the status field of the
\* reconciliation addressed by id and organisation.  Every other field of it,
\* every other reconciliation, and all invoices, payments and exceptions stay
\* as they were, also when the new status is rejected: the linked invoice and
\* payment keep the statuses the reconciliation gave them.  A call that
\* addresses no reconciliation of the organisation changes nothing.
Addressed(k) ==
  /\ reconciliations[k].id = last'.invoiceId
  /\ reconciliations[k].organizationId = last'.organizationId

StatusUpdateTouchesOnlyStatus ==
  last'.op = "updateReconciliationStatus" =>
    /\ invoices' = invoices
    /\ payments' = payments
    /\ exceptions' = exceptions
    /\ Len(reconciliations') = Len(reconciliations)
    /\ \A k \in 1..Len(reconciliations) :
         /\ \A f \in DOMAIN reconciliations[k] \ {"status"} :
               reconciliations'[k][f] = reconciliations[k][f]
         /\ Addressed(k) => reconciliations'[k].status = last'.suggestions[1]
         /\ ~Addressed(k) => reconciliations'[k].status = reconciliations[k].status

C28_StatusUpdateTouchesOnlyStatus == [][StatusUpdateTouchesOnlyStatus]_vars

\* A reconciliation was rejected next to another one, and its invoice and
\* payment still carry the statuses of a reconciled pair.
C28_Witness ==
  /\ last.op = "updateReconciliationStatus"
  /\ last.result # <<>>
  /\ last.result[1].status = "rejected"
  /\ Len(reconciliations) = 2
  /\ \E i \in 1..Len(invoices) :
        /\ invoices[i].id = last.result[1].invoiceId
        /\ invoices[i].status \in {"matched", "partially_matched"}
  /\ \E p \in 1..Len(payments) :
        /\ payments[p].id = last.result[1].paymentId
        /\ payments[p].status \in {"matched", "partially_matched"}


\* C29: after any sequence of autoReconcile and manual createReconciliation
\* calls, every invoice and every payment is referenced by at most one
\* reconciliation record.
C29_OneReconciliationPerRecord ==
  \A j, k \in 1..Len(reconciliations) :
     j # k =>
       /\ reconciliations[j].invoiceId # reconciliations[k].invoiceId
       /\ reconciliations[j].paymentId # reconciliations[k].paymentId


\* C30: for every processing job at most one remittance record carries the
\* job's id as processingJobId, across all failures and retries of the job,
\* and a job is completed only if such a record exists.
RemittancesOf(jobId) ==
  {n \in 1..Len(remittances) : remittances[n].processingJobId = jobId}

C30_OneRemittancePerJob ==
  \A k \in 1..Len(jobs) :
     /\ Cardinality(RemittancesOf(jobs[k].id)) <= 1
     /\ jobs[k].status = "completed" => RemittancesOf(jobs[k].id) # {}

====
